---- MODULE Spec2Model ----
(***************************************************************************)
(* The forex-bot web client: the status bar (AutoTradeStatusBar), the      *)
(* AutoTrade view and the Dashboard view, each a set of event handlers     *)
(* running on one event loop, and the remote engine they talk to.          *)
(*                                                                         *)
(* A handler runs atomically from one await to the next.  A remote call is *)
(* a record in the bag `net`: it is "sent", the engine serves it (the       *)
(* engine's state changes and the response is fixed),                      *)
(* and the client then either receives the response (the handler's         *)
(* continuation runs) or sees a transport failure (its catch block runs).  *)
(***************************************************************************)
EXTENDS Integers, Sequences, FiniteSets, Bags, TLC

\* Bounds of the model.
MaxNet == 2          \* timers and buttons issue nothing while this many calls are outstanding
MaxTradeCount == 1   \* the engine's automation trade counter stops here
MaxRecords == 3      \* the history the engine holds for the history page is this long at most
MaxUrl == 5          \* VITE_API_URL has this many characters at most

VARIABLES
    component,           \* the component whose handlers the behaviour runs
    net,                 \* the bag of outstanding remote calls
    effects,             \* what the latest handler step did: alerts raised, calls issued, in order
    uncaught,            \* an exception escaped a handler
    \* ---- remote engine
    remoteRunning,       \* automation flag
    remoteTradeCount,    \* trades executed by the automation loop
    remoteActive,        \* ledger: open trades
    remoteHistory,       \* ledger: closed trades
    remoteRecords,       \* ledger: the closed trades as the history page reads them,
                         \* the records with their pnl in the engine's order
    \* ---- AutoTradeStatusBar
    barMounted,
    barInterval,         \* the 5 s status interval is scheduled
    status,              \* useState({is_running, trade_count, ...})
    loading,             \* useState(false)
    \* ---- AutoTrade
    autoMounted,
    autoLedgerInterval,  \* the 5 s ledger interval of the view is scheduled
    cycleInterval,       \* the 60 s cycle intervals that are scheduled, counted
    autoMode,
    scanning,
    selectedOpportunity,
    opportunities,
    lastScan,
    autoActiveTrades,    \* activeTrades of AutoTrade
    autoStats,           \* stats of AutoTrade
    \* ---- Dashboard
    dashMounted,
    dashLedgerInterval,  \* the 5 s ledger interval of the view is scheduled
    symbol,
    data,
    dashLoading,         \* loading of Dashboard
    runningBot,
    dashActiveTrades,    \* activeTrades of Dashboard
    dashStats,           \* stats of Dashboard
    \* ---- TradeHistory
    histMounted,
    trades,              \* useState([])
    histLoading,         \* loading of TradeHistory, useState(true)
    filter,              \* useState('ALL')
    \* ---- configuration
    viteApiUrl,          \* import.meta.env.VITE_API_URL as supplied to the build
    API_URL,             \* the exported API_URL of each configuration module
    addressed,           \* the view and the base of the request issued last
    \* ---- history
    issueOrder           \* the calls record the order in which they were issued

remoteVars == <<remoteRunning, remoteTradeCount, remoteActive, remoteHistory>>
barVars == <<barMounted, barInterval, status, loading>>
autoVars == <<autoMounted, autoLedgerInterval, cycleInterval, autoMode, scanning,
              selectedOpportunity, opportunities, lastScan, autoActiveTrades, autoStats>>
dashVars == <<dashMounted, dashLedgerInterval, symbol, data, dashLoading, runningBot,
              dashActiveTrades, dashStats>>
histVars == <<histMounted, trades, histLoading, filter, remoteRecords>>
configVars == <<viteApiUrl, API_URL, addressed, issueOrder>>
clientVars == <<barVars, autoVars, dashVars, histVars, configVars>>
notBar == <<autoVars, dashVars, histVars, configVars>>
notAuto == <<barVars, dashVars, histVars, configVars>>
notDash == <<barVars, autoVars, histVars, configVars>>
notHist == <<barVars, autoVars, dashVars, configVars>>

vars == <<component, net, effects, uncaught, remoteVars, clientVars>>

TradeIds == {"T1"}

----------------------------------------------------------------------------
\* Remote calls

NoResp == [status |-> "pending"]
NoArg == [none |-> TRUE]

Request(view, op, by, arg) ==
    [view |-> view, op |-> op, by |-> by, arg |-> arg, live |-> TRUE,
     phase |-> "sent", resp |-> NoResp, issued |-> "first"]

Calls == BagToSet(net)
Add(b, r) == b (+) SetToBag({r})
Remove(b, r) == b (-) SetToBag({r})
Served(r, resp) == Add(Remove(net, r), [r EXCEPT !.phase = "served", !.resp = resp])

\* The calls of a view lose their component: its state setters do nothing.
Dead(r, view) == IF r.view = view THEN [r EXCEPT !.live = FALSE] ELSE r
Alive(r) == [r EXCEPT !.live = TRUE]
Orphan(view) ==
    [d \in {Dead(r, view) : r \in Calls} |->
        (IF d \in Calls THEN net[d] ELSE 0)
        + (IF d.view = view /\ Alive(d) \in Calls THEN net[Alive(d)] ELSE 0)]

\* The order in which the fetches of one replica (the status of the bar, the
\* ledger of a view) were issued.  A fetch issued while no fetch of its
\* replica is outstanding is "first": it is older than every fetch that is
\* outstanding together with it.  One issued while another is outstanding is
\* "later".
Issued(view, op) ==
    IF issueOrder /\ \E q \in Calls : q.view = view /\ q.op = op THEN "later" ELSE "first"

\* The response of fetch r has been stored in its replica: the "first" fetch
\* of the replica that is still outstanding has been overtaken.
Overtaken(q, r) ==
    IF q.view = r.view /\ q.op = r.op /\ q.issued = "first"
    THEN [q EXCEPT !.issued = "overtaken"] ELSE q
Overtake(b, r) ==
    [d \in {Overtaken(q, r) : q \in BagToSet(b)} |->
        (IF d \in BagToSet(b) /\ Overtaken(d, r) = d THEN b[d] ELSE 0)
        + (IF d.issued = "overtaken" /\ [d EXCEPT !.issued = "first"] \in BagToSet(b)
              /\ Overtaken([d EXCEPT !.issued = "first"], r) = d
           THEN b[[d EXCEPT !.issued = "first"]] ELSE 0)]

\* Call r is over.  ok: its response was received; a component that is still
\* mounted has then stored it.
Settle(r, ok) ==
    IF issueOrder /\ ok /\ r.live THEN Overtake(Remove(net, r), r) ELSE Remove(net, r)

Alert(kind, arg) == [t |-> "alert", kind |-> kind, arg |-> arg]
Sent(op) == [t |-> "request", kind |-> op, arg |-> NoArg]
Log(what) == [t |-> "console.error", kind |-> what, arg |-> NoArg]

\* A timer or a button issues calls only while the calls outstanding, those it
\* adds and those their handlers go on to add stay within MaxNet.  The run-once
\* handler of the Dashboard replaces its call by two.
Grows(r) == r.view = "Dashboard" /\ r.op = "POST_run_bot"
Load == BagCardinality(net)
        + BagCardinality([r \in {x \in Calls : Grows(x)} |-> net[r]])
RoomFor(n) == Load + n <= MaxNet
Room == RoomFor(1)

\* A view is mounted again only once the calls of its previous instance are over.
NoOrphans(view) == \A r \in Calls : r.view = view => r.live

----------------------------------------------------------------------------
\* The remote engine (spec section 6)

StatusResponse ==
    [status |-> "ok", is_running |-> remoteRunning, trade_count |-> remoteTradeCount]

\* The engine serves call i: the response is fixed and the command takes effect.
ServeStart(r) ==
    /\ r.op = "POST_start"
    /\ \/ /\ remoteRunning' = TRUE
          /\ net' = Served(r, [status |-> IF remoteRunning THEN "already_running"
                                                ELSE "started"])
       \/ /\ remoteRunning' = remoteRunning
          /\ net' = Served(r, [status |-> "error"])
    /\ UNCHANGED <<remoteTradeCount, remoteActive, remoteHistory>>

ServeStop(r) ==
    /\ r.op = "POST_stop"
    /\ \/ /\ remoteRunning' = FALSE
          /\ net' = Served(r, [status |-> "stopped",
                                     total_trades |-> remoteTradeCount])
       \/ /\ remoteRunning' = remoteRunning
          /\ net' = Served(r, [status |-> "error"])
    /\ UNCHANGED <<remoteTradeCount, remoteActive, remoteHistory>>

ServeStatus(r) ==
    /\ r.op = "GET_status"
    /\ net' = Served(r, StatusResponse)
    /\ UNCHANGED remoteVars

Symbols == {"EURUSD", "GBPUSD"}
SymbolOf(t) == IF t = "T1" THEN "EURUSD" ELSE "GBPUSD"
NoTrade == "null"

\* The opportunity batches a cycle may return, best first.  The Dashboard never
\* reads all_opportunities: its responses carry the empty batch.
Batches(view) == IF view = "AutoTrade" THEN {<<>>, <<"GBPUSD", "EURUSD">>} ELSE {<<>>}

FreshTrades == TradeIds \ (remoteActive \cup remoteHistory)

LedgerResponse ==
    [status |-> "ok", active_trades |-> remoteActive, recent_history |-> remoteHistory,
     stats |-> [total_trades |-> Cardinality(remoteHistory)]]

ServeTrades(r) ==
    /\ r.op = "GET_trades"
    /\ net' = Served(r, LedgerResponse)
    /\ UNCHANGED remoteVars

\* POST /run_bot: one scan-and-decide pass.  It executes zero or one trade and
\* returns the ranked batch, or reports another status.
ServeRunBot(r) ==
    /\ r.op = "POST_run_bot"
    /\ \/ \E t \in FreshTrades, b \in Batches(r.view) :
             /\ remoteActive' = remoteActive \cup {t}
             /\ net' = Served(r, [status |-> "success", trade |-> SymbolOf(t),
                                        total_scanned |-> Cardinality(Symbols),
                                        all_opportunities |-> b])
       \/ \E b \in Batches(r.view) :
             /\ remoteActive' = remoteActive
             /\ net' = Served(r, [status |-> "success", trade |-> NoTrade,
                                        total_scanned |-> Cardinality(Symbols),
                                        all_opportunities |-> b])
       \/ /\ remoteActive' = remoteActive
          /\ net' = Served(r, [status |-> "error"])
    /\ UNCHANGED <<remoteRunning, remoteTradeCount, remoteHistory>>

\* POST /close_trade/{id}: an open trade moves to the history.
ServeCloseTrade(r) ==
    /\ r.op = "POST_close_trade"
    /\ IF r.arg.trade_id \in remoteActive
       THEN /\ remoteActive' = remoteActive \ {r.arg.trade_id}
            /\ remoteHistory' = remoteHistory \cup {r.arg.trade_id}
            /\ net' = Served(r, [status |-> "success"])
       ELSE /\ UNCHANGED <<remoteActive, remoteHistory>>
            /\ net' = Served(r, [status |-> "error"])
    /\ UNCHANGED <<remoteRunning, remoteTradeCount>>

\* POST /scan: the market snapshot of a symbol, or the reason it was filtered.
FilterMessage == "confidence 0.42 below 0.65 threshold"

\* The engine keeps no state for a scan: the response is whatever the scan finds
\* when the call completes.
ScanResponses ==
    {[status |-> "success"], [status |-> "filtered", message |-> FilterMessage]}

\* POST /reset: the ledger is cleared.
ResetMessage == "Balance reset to $10,000"

ServeReset(r) ==
    /\ r.op = "POST_reset"
    /\ \/ /\ remoteActive' = {}
          /\ remoteHistory' = {}
          /\ net' = Served(r, [status |-> "success", message |-> ResetMessage])
       \/ /\ UNCHANGED <<remoteActive, remoteHistory>>
          /\ net' = Served(r, [status |-> "error"])
    /\ UNCHANGED <<remoteRunning, remoteTradeCount>>

\* A stop or a target of an open trade is hit: the engine closes it.
RemoteTradeCloses ==
    /\ \E t \in remoteActive :
          /\ remoteActive' = remoteActive \ {t}
          /\ remoteHistory' = remoteHistory \cup {t}
    /\ effects' = <<>>
    /\ UNCHANGED <<component, net, uncaught, remoteRunning, remoteTradeCount, clientVars>>

\* The automation loop of the engine executes a trade.
RemoteAutoTrade ==
    /\ remoteRunning
    /\ remoteTradeCount < MaxTradeCount
    /\ remoteTradeCount' = remoteTradeCount + 1
    /\ effects' = <<>>
    /\ UNCHANGED <<component, net, uncaught, remoteRunning, remoteActive, remoteHistory, clientVars>>

----------------------------------------------------------------------------
\* AutoTradeStatusBar

InitialStatus == [status |-> "ok", is_running |-> FALSE, trade_count |-> 0]

\* fetchStatus up to its await: the GET is issued.  `live` is whether the
\* component instance that issues it is still mounted.
fetchStatus(by, arg, live) ==
    [Request("StatusBar", "GET_status", by, arg) EXCEPT
        !.live = live, !.issued = Issued("StatusBar", "GET_status")]

\* A fetchStatus whose catch block resets the replica instead of keeping it.
fetchStatusApplyForgets(r, ok) == IF ok /\ r.live THEN r.resp ELSE InitialStatus

\* A fetchStatus whose setter reaches the state of a bar that is gone.
fetchStatusApplyUnmounted(r, ok) == IF ok THEN r.resp ELSE status

\* fetchStatus after its await.  ok: the GET returned a response, and
\* setStatus(response.data) follows; otherwise the catch block logs the error
\* and the replica stays.  A state setter of an unmounted component does nothing.
fetchStatusApply(r, ok) == IF ok /\ r.live THEN r.resp ELSE status
fetchStatusLog(ok) == IF ok THEN <<>> ELSE <<Log("Error fetching auto-trade status")>>

\* A handler without the finally block: the busy flag stays as it is.
FinallyLoadingSkipped(r) == loading

\* the finally block of handleStart and handleStop: setLoading(false).
FinallyLoading(r) == IF r.live THEN FALSE ELSE loading

\* A mount effect that only schedules the interval: the first fetch waits for
\* the first tick.
StatusBarMountIdle ==
    /\ ~barMounted
    /\ NoOrphans("StatusBar")
    /\ Room
    /\ barMounted' = TRUE
    /\ barInterval' = TRUE
    /\ status' = InitialStatus
    /\ loading' = FALSE
    /\ net' = net
    /\ effects' = <<>>
    /\ UNCHANGED <<component, uncaught, remoteVars, notBar>>

\* useEffect(..., []): fetch on mount, then every 5 seconds.
StatusBarMount ==
    /\ ~barMounted
    /\ NoOrphans("StatusBar")
    /\ Room
    /\ barMounted' = TRUE
    /\ barInterval' = TRUE
    /\ status' = InitialStatus
    /\ loading' = FALSE
    /\ net' = Add(net, fetchStatus("fetchStatus", NoArg, TRUE))
    /\ effects' = <<Sent("GET_status")>>
    /\ UNCHANGED <<component, uncaught, remoteVars, notBar>>

\* The cleanup of the effect: clearInterval.  The component's state is gone.
StatusBarUnmount ==
    /\ barMounted
    /\ barMounted' = FALSE
    /\ barInterval' = FALSE
    /\ status' = InitialStatus
    /\ loading' = FALSE
    /\ net' = Orphan("StatusBar")
    /\ effects' = <<>>
    /\ UNCHANGED <<component, uncaught, remoteVars, notBar>>

\* setInterval(fetchStatus, 5000) fires.
StatusTick ==
    /\ barInterval
    /\ Room
    /\ net' = Add(net, fetchStatus("fetchStatus", NoArg, TRUE))
    /\ effects' = <<Sent("GET_status")>>
    /\ UNCHANGED <<component, uncaught, remoteVars, barVars, notBar>>

\* fetchStatus after its await, called from the timer or the mount effect.
fetchStatusDone(r) ==
    /\ r.by = "fetchStatus" /\ r.phase = "served"
    /\ status' = fetchStatusApply(r, TRUE)
    /\ net' = Settle(r, TRUE)
    /\ effects' = fetchStatusLog(TRUE)
    /\ UNCHANGED <<component, uncaught, remoteVars, notBar, barMounted, barInterval, loading>>

\* The catch block of fetchStatus: console.error only.
fetchStatusCatch(r) ==
    /\ r.by = "fetchStatus"
    /\ status' = fetchStatusApply(r, FALSE)
    /\ net' = Remove(net, r)
    /\ effects' = fetchStatusLog(FALSE)
    /\ UNCHANGED <<component, uncaught, remoteVars, notBar, barMounted, barInterval, loading>>

\* A handleStart that leaves the busy flag alone: the button stays enabled
\* while the command is outstanding.
handleStartNotBusy ==
    /\ barMounted /\ ~loading /\ ~status.is_running
    /\ Room
    /\ net' = Add(net, Request("StatusBar", "POST_start", "handleStart", NoArg))
    /\ effects' = <<Sent("POST_start")>>
    /\ UNCHANGED <<component, uncaught, remoteVars, notBar, barVars>>

\* The control button: onClick={status.is_running ? handleStop : handleStart},
\* disabled={loading}.  handleStart up to its first await.
handleStart ==
    /\ barMounted /\ ~loading /\ ~status.is_running
    /\ Room
    /\ loading' = TRUE
    /\ net' = Add(net, Request("StatusBar", "POST_start", "handleStart", NoArg))
    /\ effects' = <<Sent("POST_start")>>
    /\ UNCHANGED <<component, uncaught, remoteVars, notBar, barMounted, barInterval, status>>

\* A handleStart that reports success without fetching the status again.
handleStartResponseNoRefresh(r) ==
    /\ r.by = "handleStart" /\ r.op = "POST_start" /\ r.phase = "served"
    /\ net' = Remove(net, r)
    /\ effects' = IF r.resp.status \in {"started", "already_running"}
                  THEN <<Alert("started", NoArg)>> ELSE <<>>
    /\ loading' = FinallyLoading(r)
    /\ UNCHANGED <<component, uncaught, remoteVars, notBar, barMounted, barInterval, status>>

\* handleStart after the POST: on started / already_running it awaits
\* fetchStatus(); on any other status it falls through to finally.
handleStartResponse(r) ==
    /\ r.by = "handleStart" /\ r.op = "POST_start" /\ r.phase = "served"
    /\ IF r.resp.status \in {"started", "already_running"}
       THEN /\ net' = Add(Remove(net, r), fetchStatus("handleStart", NoArg, r.live))
            /\ effects' = <<Sent("GET_status")>>
            /\ UNCHANGED loading
       ELSE /\ net' = Remove(net, r)
            /\ effects' = <<>>
            /\ loading' = FinallyLoading(r)
    /\ UNCHANGED <<component, uncaught, remoteVars, notBar, barMounted, barInterval, status>>

\* handleStart's catch and finally: the POST failed.
handleStartCatch(r) ==
    /\ r.by = "handleStart" /\ r.op = "POST_start"
    /\ net' = Remove(net, r)
    /\ effects' = <<Log("Error starting auto-trade"), Alert("start_failed", NoArg)>>
    /\ loading' = FinallyLoading(r)
    /\ UNCHANGED <<component, uncaught, remoteVars, notBar, barMounted, barInterval, status>>

\* handleStart after `await fetchStatus()`: the alert and finally.  fetchStatus
\* has either applied the response or swallowed its own failure.
handleStartRefreshed(r, ok) ==
    /\ r.by = "handleStart" /\ r.op = "GET_status"
    /\ ok => r.phase = "served"
    /\ status' = fetchStatusApply(r, ok)
    /\ net' = Settle(r, ok)
    /\ effects' = fetchStatusLog(ok) \o <<Alert("started", NoArg)>>
    /\ loading' = FinallyLoading(r)
    /\ UNCHANGED <<component, uncaught, remoteVars, notBar, barMounted, barInterval>>

\* handleStop up to its first await.
handleStop ==
    /\ barMounted /\ ~loading /\ status.is_running
    /\ Room
    /\ loading' = TRUE
    /\ net' = Add(net, Request("StatusBar", "POST_stop", "handleStop", NoArg))
    /\ effects' = <<Sent("POST_stop")>>
    /\ UNCHANGED <<component, uncaught, remoteVars, notBar, barMounted, barInterval, status>>

\* handleStop after the POST; the response stays in scope for the alert.
handleStopResponse(r) ==
    /\ r.by = "handleStop" /\ r.op = "POST_stop" /\ r.phase = "served"
    /\ IF r.resp.status = "stopped"
       THEN /\ net' = Add(Remove(net, r),
                             fetchStatus("handleStop", r.resp, r.live))
            /\ effects' = <<Sent("GET_status")>>
            /\ UNCHANGED loading
       ELSE /\ net' = Remove(net, r)
            /\ effects' = <<>>
            /\ loading' = FinallyLoading(r)
    /\ UNCHANGED <<component, uncaught, remoteVars, notBar, barMounted, barInterval, status>>

handleStopCatch(r) ==
    /\ r.by = "handleStop" /\ r.op = "POST_stop"
    /\ net' = Remove(net, r)
    /\ effects' = <<Log("Error stopping auto-trade"), Alert("stop_failed", NoArg)>>
    /\ loading' = FinallyLoading(r)
    /\ UNCHANGED <<component, uncaught, remoteVars, notBar, barMounted, barInterval, status>>

\* handleStop after `await fetchStatus()`: the alert carries
\* response.data.total_trades of the stop response.
handleStopRefreshed(r, ok) ==
    /\ r.by = "handleStop" /\ r.op = "GET_status"
    /\ ok => r.phase = "served"
    /\ status' = fetchStatusApply(r, ok)
    /\ net' = Settle(r, ok)
    /\ effects' = fetchStatusLog(ok)
                   \o <<Alert("stopped", [total_trades |-> r.arg.total_trades])>>
    /\ loading' = FinallyLoading(r)
    /\ UNCHANGED <<component, uncaught, remoteVars, notBar, barMounted, barInterval>>

\* The engine serves a call of the status bar.
StatusBarServe(r) ==
    /\ r.phase = "sent"
    /\ ServeStatus(r) \/ ServeStart(r) \/ ServeStop(r)
    /\ effects' = <<>>
    /\ UNCHANGED <<component, uncaught, barVars, notBar>>

StatusBarNext ==
    \/ StatusBarMount
    \/ StatusBarUnmount
    \/ StatusTick
    \/ handleStart
    \/ handleStop
    \/ RemoteAutoTrade
    \/ \E r \in Calls :
          \/ StatusBarServe(r)
          \/ fetchStatusDone(r)
          \/ fetchStatusCatch(r)
          \/ handleStartResponse(r)
          \/ handleStartCatch(r)
          \/ \E ok \in BOOLEAN : handleStartRefreshed(r, ok)
          \/ handleStopResponse(r)
          \/ handleStopCatch(r)
          \/ \E ok \in BOOLEAN : handleStopRefreshed(r, ok)

----------------------------------------------------------------------------
\* AutoTrade

NoStats == [total_trades |-> -1]
NoSelection == "null"
NoScan == "null"

\* lastScan = new Date(): a stamp that differs from the one before.
NextStamp(d) == IF d = "tick" THEN "tock" ELSE "tick"

\* fetchTrades up to its await.  by: the handler that awaits it, or "fetchTrades"
\* where nothing awaits it (the mount effect, the interval, a handler that calls
\* it and goes on).
autoFetchTrades(by, live) ==
    [Request("AutoTrade", "GET_trades", by, NoArg) EXCEPT
        !.live = live, !.issued = Issued("AutoTrade", "GET_trades")]

\* fetchTrades after its await.  ok: the GET returned a response, and
\* setActiveTrades and setStats follow; otherwise the catch block logs the error.
autoApplyTrades(r, ok) == IF ok /\ r.live THEN r.resp.active_trades ELSE autoActiveTrades
autoApplyStats(r, ok) == IF ok /\ r.live THEN r.resp.stats ELSE autoStats
autoFetchTradesLog(ok) == IF ok THEN <<>> ELSE <<Log("Error fetching trades")>>

\* startAutoTrade up to its await: setScanning(true), POST /run_bot.
startAutoTrade == Request("AutoTrade", "POST_run_bot", "startAutoTrade", NoArg)

\* A cleanup that leaves the interval of the previous run scheduled.
cycleCleanupSkipped == cycleInterval

\* return () => { if (interval) clearInterval(interval) } of a run of the
\* autoMode effect that set an interval: that interval is cleared.
cycleCleanup == cycleInterval - 1

\* Both effects of the view on mount: fetchTrades() and the 5 s interval; the
\* autoMode effect does nothing while autoMode is false.
AutoTradeMount ==
    /\ ~autoMounted
    /\ NoOrphans("AutoTrade")
    /\ Room
    /\ autoMounted' = TRUE
    /\ autoLedgerInterval' = TRUE
    /\ cycleInterval' = cycleInterval
    /\ autoMode' = FALSE
    /\ scanning' = FALSE
    /\ selectedOpportunity' = NoSelection
    /\ opportunities' = <<>>
    /\ lastScan' = NoScan
    /\ autoActiveTrades' = {}
    /\ autoStats' = NoStats
    /\ net' = Add(net, autoFetchTrades("fetchTrades", TRUE))
    /\ effects' = <<Sent("GET_trades")>>
    /\ UNCHANGED <<component, uncaught, remoteVars, notAuto>>

\* A teardown that runs the cleanup of the ledger effect only: the interval of
\* the autoMode effect stays scheduled.
AutoTradeUnmountLeaks ==
    /\ autoMounted
    /\ autoMounted' = FALSE
    /\ autoLedgerInterval' = FALSE
    /\ cycleInterval' = cycleInterval
    /\ autoMode' = FALSE
    /\ scanning' = FALSE
    /\ selectedOpportunity' = NoSelection
    /\ opportunities' = <<>>
    /\ lastScan' = NoScan
    /\ autoActiveTrades' = {}
    /\ autoStats' = NoStats
    /\ net' = Orphan("AutoTrade")
    /\ effects' = <<>>
    /\ UNCHANGED <<component, uncaught, remoteVars, notAuto>>

\* The cleanups of both effects: clearInterval of each live interval.
AutoTradeUnmount ==
    /\ autoMounted
    /\ autoMounted' = FALSE
    /\ autoLedgerInterval' = FALSE
    /\ cycleInterval' = IF autoMode THEN cycleCleanup ELSE cycleInterval
    /\ autoMode' = FALSE
    /\ scanning' = FALSE
    /\ selectedOpportunity' = NoSelection
    /\ opportunities' = <<>>
    /\ lastScan' = NoScan
    /\ autoActiveTrades' = {}
    /\ autoStats' = NoStats
    /\ net' = Orphan("AutoTrade")
    /\ effects' = <<>>
    /\ UNCHANGED <<component, uncaught, remoteVars, notAuto>>

\* setInterval(fetchTrades, 5000) fires.
autoLedgerTick ==
    /\ autoLedgerInterval
    /\ Room
    /\ net' = Add(net, autoFetchTrades("fetchTrades", TRUE))
    /\ effects' = <<Sent("GET_trades")>>
    /\ UNCHANGED <<component, uncaught, remoteVars, notAuto, autoVars>>

\* fetchTrades after its await: setActiveTrades, setStats.
autoFetchTradesDone(r) ==
    /\ r.view = "AutoTrade" /\ r.op = "GET_trades" /\ r.phase = "served"
    /\ autoActiveTrades' = autoApplyTrades(r, TRUE)
    /\ autoStats' = autoApplyStats(r, TRUE)
    /\ net' = Settle(r, TRUE)
    /\ effects' = autoFetchTradesLog(TRUE)
    /\ UNCHANGED <<component, uncaught, remoteVars, notAuto, autoMounted, autoLedgerInterval,
                   cycleInterval, autoMode, scanning, selectedOpportunity, opportunities,
                   lastScan>>

\* The catch block of fetchTrades: console.error only.
autoFetchTradesCatch(r) ==
    /\ r.view = "AutoTrade" /\ r.op = "GET_trades"
    /\ autoActiveTrades' = autoApplyTrades(r, FALSE)
    /\ autoStats' = autoApplyStats(r, FALSE)
    /\ net' = Remove(net, r)
    /\ effects' = autoFetchTradesLog(FALSE)
    /\ UNCHANGED <<component, uncaught, remoteVars, notAuto, autoMounted, autoLedgerInterval,
                   cycleInterval, autoMode, scanning, selectedOpportunity, opportunities,
                   lastScan>>

\* onClick={() => setAutoMode(!autoMode)} and the autoMode effect that follows
\* the render: the cleanup of the previous run clears the interval that run
\* set, if it set one; when auto mode is on, startAutoTrade() runs and a new
\* interval is set.
toggleAutoMode ==
    /\ autoMounted
    /\ autoMode' = ~autoMode
    /\ IF ~autoMode
       THEN /\ Room
            /\ cycleInterval' = cycleInterval + 1
            /\ scanning' = TRUE
            /\ net' = Add(net, startAutoTrade)
            /\ effects' = <<Sent("POST_run_bot")>>
       ELSE /\ cycleInterval' = cycleCleanup
            /\ effects' = <<>>
            /\ UNCHANGED <<scanning, net>>
    /\ UNCHANGED <<component, uncaught, remoteVars, notAuto, autoMounted, autoLedgerInterval,
                   selectedOpportunity, opportunities, lastScan, autoActiveTrades,
                   autoStats>>

\* setInterval(startAutoTrade, 60000) fires.
cycleTick ==
    /\ cycleInterval > 0
    /\ Room
    /\ scanning' = TRUE
    /\ net' = Add(net, startAutoTrade)
    /\ effects' = <<Sent("POST_run_bot")>>
    /\ UNCHANGED <<component, uncaught, remoteVars, notAuto, autoMounted, autoLedgerInterval,
                   cycleInterval, autoMode, selectedOpportunity, opportunities, lastScan,
                   autoActiveTrades, autoStats>>

\* A cycle that leaves the ledger to the 5 s interval.
startAutoTradeNoRefresh(r) == Remove(net, r)

\* startAutoTrade on success: fetchTrades() is called and not awaited.
startAutoTradeRefresh(r) == Add(Remove(net, r), autoFetchTrades("fetchTrades", r.live))

\* A list that keeps what it had and takes the new batch after it.
setOpportunitiesAppends(r, opps) == IF r.live THEN opportunities \o opps ELSE opportunities

\* setOpportunities(opps).
setOpportunities(r, opps) == IF r.live THEN opps ELSE opportunities

\* if (opps.length > 0) setSelectedOpportunity(opps[0]).
setSelectedOpportunity(r, opps) ==
    IF r.live /\ Len(opps) > 0 THEN opps[1] ELSE selectedOpportunity

\* startAutoTrade after its await.  On status success: the batch replaces the
\* list, its first element (if any) is selected, lastScan is stamped and
\* fetchTrades() is called; finally setScanning(false).
startAutoTradeResponse(r) ==
    /\ r.by = "startAutoTrade" /\ r.op = "POST_run_bot" /\ r.phase = "served"
    /\ IF r.resp.status = "success"
       THEN LET opps == r.resp.all_opportunities IN
            /\ opportunities' = setOpportunities(r, opps)
            /\ selectedOpportunity' = setSelectedOpportunity(r, opps)
            /\ lastScan' = IF r.live THEN NextStamp(lastScan) ELSE lastScan
            /\ net' = startAutoTradeRefresh(r)
            /\ effects' = <<Sent("GET_trades")>>
       ELSE /\ net' = Remove(net, r)
            /\ effects' = <<>>
            /\ UNCHANGED <<opportunities, selectedOpportunity, lastScan>>
    /\ scanning' = IF r.live THEN FALSE ELSE scanning
    /\ UNCHANGED <<component, uncaught, remoteVars, notAuto, autoMounted, autoLedgerInterval,
                   cycleInterval, autoMode, autoActiveTrades, autoStats>>

\* A catch block that empties the opportunity list and stops the interval.
startAutoTradeCatchClears(r) ==
    /\ r.by = "startAutoTrade" /\ r.op = "POST_run_bot"
    /\ net' = Remove(net, r)
    /\ effects' = <<Log("Auto-trade error")>>
    /\ scanning' = IF r.live THEN FALSE ELSE scanning
    /\ opportunities' = <<>>
    /\ cycleInterval' = 0
    /\ UNCHANGED <<component, uncaught, remoteVars, notAuto, autoMounted, autoLedgerInterval,
                   autoMode, selectedOpportunity, lastScan, autoActiveTrades, autoStats>>

\* startAutoTrade's catch (console.error) and finally.
startAutoTradeCatch(r) ==
    /\ r.by = "startAutoTrade" /\ r.op = "POST_run_bot"
    /\ net' = Remove(net, r)
    /\ effects' = <<Log("Auto-trade error")>>
    /\ scanning' = IF r.live THEN FALSE ELSE scanning
    /\ UNCHANGED <<component, uncaught, remoteVars, notAuto, autoMounted, autoLedgerInterval,
                   cycleInterval, autoMode, selectedOpportunity, opportunities, lastScan,
                   autoActiveTrades, autoStats>>

\* A handleCloseTrade that takes the trade off the list before the engine
\* answers, and never puts it back.
autoHandleCloseTradeOptimistic(tradeId) ==
    /\ autoMounted
    /\ tradeId \in autoActiveTrades
    /\ Room
    /\ autoActiveTrades' = autoActiveTrades \ {tradeId}
    /\ net' = Add(net, Request("AutoTrade", "POST_close_trade", "handleCloseTrade",
                                  [trade_id |-> tradeId]))
    /\ effects' = <<Sent("POST_close_trade")>>
    /\ UNCHANGED <<component, uncaught, remoteVars, notAuto, autoMounted, autoLedgerInterval,
                   cycleInterval, autoMode, scanning, selectedOpportunity, opportunities,
                   lastScan, autoStats>>

\* The close button of a displayed trade: handleCloseTrade up to its await.
autoHandleCloseTrade(tradeId) ==
    /\ autoMounted
    /\ tradeId \in autoActiveTrades
    /\ Room
    /\ net' = Add(net, Request("AutoTrade", "POST_close_trade", "handleCloseTrade",
                                  [trade_id |-> tradeId]))
    /\ effects' = <<Sent("POST_close_trade")>>
    /\ UNCHANGED <<component, uncaught, remoteVars, notAuto, autoVars>>

\* A handleCloseTrade that removes the trade from the list itself once the
\* engine has answered, and fetches nothing.
autoHandleCloseTradeRemoves(r) ==
    /\ r.view = "AutoTrade" /\ r.op = "POST_close_trade" /\ r.phase = "served"
    /\ autoActiveTrades' = IF r.live THEN autoActiveTrades \ {r.arg.trade_id}
                           ELSE autoActiveTrades
    /\ net' = Remove(net, r)
    /\ effects' = <<>>
    /\ UNCHANGED <<component, uncaught, remoteVars, notAuto, autoMounted, autoLedgerInterval,
                   cycleInterval, autoMode, scanning, selectedOpportunity, opportunities,
                   lastScan, autoStats>>

\* handleCloseTrade after its await: fetchTrades(), whatever the response says.
autoHandleCloseTradeResponse(r) ==
    /\ r.view = "AutoTrade" /\ r.op = "POST_close_trade" /\ r.phase = "served"
    /\ net' = Add(Remove(net, r), autoFetchTrades("fetchTrades", r.live))
    /\ effects' = <<Sent("GET_trades")>>
    /\ UNCHANGED <<component, uncaught, remoteVars, notAuto, autoVars>>

\* handleCloseTrade's catch: console.error only.
autoHandleCloseTradeCatch(r) ==
    /\ r.view = "AutoTrade" /\ r.op = "POST_close_trade"
    /\ net' = Remove(net, r)
    /\ effects' = <<Log("Error closing trade")>>
    /\ UNCHANGED <<component, uncaught, remoteVars, notAuto, autoVars>>

\* A click on a listed opportunity that also fetches the ledger.
selectOpportunityFetches(k) ==
    /\ autoMounted
    /\ k \in 1..Len(opportunities)
    /\ Room
    /\ selectedOpportunity' = opportunities[k]
    /\ net' = Add(net, autoFetchTrades("fetchTrades", TRUE))
    /\ effects' = <<Sent("GET_trades")>>
    /\ UNCHANGED <<component, uncaught, remoteVars, notAuto, autoMounted, autoLedgerInterval,
                   cycleInterval, autoMode, scanning, opportunities, lastScan,
                   autoActiveTrades, autoStats>>

\* onClick={() => setSelectedOpportunity(opp)} of a listed opportunity.
selectOpportunity(k) ==
    /\ autoMounted
    /\ k \in 1..Len(opportunities)
    /\ selectedOpportunity' = opportunities[k]
    /\ effects' = <<>>
    /\ UNCHANGED <<component, net, uncaught, remoteVars, notAuto, autoMounted, autoLedgerInterval,
                   cycleInterval, autoMode, scanning, opportunities, lastScan,
                   autoActiveTrades, autoStats>>

\* The engine serves a call of the view.
AutoTradeServe(r) ==
    /\ r.view = "AutoTrade" /\ r.phase = "sent"
    /\ ServeTrades(r) \/ ServeRunBot(r) \/ ServeCloseTrade(r)
    /\ effects' = <<>>
    /\ UNCHANGED <<component, uncaught, clientVars>>

AutoTradeNext ==
    \/ AutoTradeMount
    \/ AutoTradeUnmount
    \/ autoLedgerTick
    \/ toggleAutoMode
    \/ cycleTick
    \/ \E t \in TradeIds : autoHandleCloseTrade(t)
    \/ \E k \in 1..2 : selectOpportunity(k)
    \/ RemoteTradeCloses
    \/ \E r \in Calls :
          \/ AutoTradeServe(r)
          \/ autoFetchTradesDone(r)
          \/ autoFetchTradesCatch(r)
          \/ startAutoTradeResponse(r)
          \/ startAutoTradeCatch(r)
          \/ autoHandleCloseTradeResponse(r)
          \/ autoHandleCloseTradeCatch(r)

----------------------------------------------------------------------------
\* Dashboard

NoData == [status |-> "null"]

dashFetchTrades(by, arg, live) ==
    [Request("Dashboard", "GET_trades", by, arg) EXCEPT
        !.live = live, !.issued = Issued("Dashboard", "GET_trades")]

\* handleScan up to its await: setLoading(true) and POST /scan with the symbol
\* of the render whose handler is running.
handleScanRequest(by, sym, live) ==
    [Request("Dashboard", "POST_scan", by, [symbol |-> sym]) EXCEPT !.live = live]

\* A handleScan that reports a filtered scan the way it reports a failure.
handleScanAlertsAsFailure(r, ok, resp) ==
    IF ~ok \/ resp.status = "filtered"
    THEN <<Log("Error scanning market"), Alert("scan_failed", NoArg)>>
    ELSE <<>>

\* handleScan after its await.  ok: the POST returned a response.  A filtered
\* response raises the notice; setData(response.data) follows in either case;
\* a failure raises the failure alert.
handleScanAlerts(r, ok, resp) ==
    IF ~ok THEN <<Log("Error scanning market"), Alert("scan_failed", NoArg)>>
    ELSE IF resp.status = "filtered"
         THEN <<Alert("filtered", [symbol |-> r.arg.symbol, message |-> resp.message])>>
         ELSE <<>>

handleScanData(r, ok, resp) == IF ok /\ r.live THEN resp ELSE data

\* The catch of fetchTrades logs a failure: the replica stays.
dashFetchTradesLog(ok) == IF ok THEN <<>> ELSE <<Log("Error fetching trades")>>
dashApplyTrades(r, ok) == IF ok /\ r.live THEN r.resp.active_trades ELSE dashActiveTrades
dashApplyStats(r, ok) == IF ok /\ r.live THEN r.resp.stats ELSE dashStats

\* useEffect(..., []): handleScan(), fetchTrades(), then the 5 s interval.
DashboardMount ==
    /\ ~dashMounted
    /\ NoOrphans("Dashboard")
    /\ RoomFor(2)
    /\ dashMounted' = TRUE
    /\ dashLedgerInterval' = TRUE
    /\ symbol' = "EURUSD"
    /\ data' = NoData
    /\ dashLoading' = TRUE
    /\ runningBot' = FALSE
    /\ dashActiveTrades' = {}
    /\ dashStats' = NoStats
    /\ net' = Add(Add(net, handleScanRequest("handleScan", "EURUSD", TRUE)),
                  dashFetchTrades("fetchTrades", NoArg, TRUE))
    /\ effects' = <<Sent("POST_scan"), Sent("GET_trades")>>
    /\ UNCHANGED <<component, uncaught, remoteVars, notDash>>

\* A teardown whose cleanup leaves the 5 s ledger interval scheduled.
DashboardUnmountLeaks ==
    /\ dashMounted
    /\ dashMounted' = FALSE
    /\ dashLedgerInterval' = dashLedgerInterval
    /\ symbol' = "EURUSD"
    /\ data' = NoData
    /\ dashLoading' = FALSE
    /\ runningBot' = FALSE
    /\ dashActiveTrades' = {}
    /\ dashStats' = NoStats
    /\ net' = Orphan("Dashboard")
    /\ effects' = <<>>
    /\ UNCHANGED <<component, uncaught, remoteVars, notDash>>

DashboardUnmount ==
    /\ dashMounted
    /\ dashMounted' = FALSE
    /\ dashLedgerInterval' = FALSE
    /\ symbol' = "EURUSD"
    /\ data' = NoData
    /\ dashLoading' = FALSE
    /\ runningBot' = FALSE
    /\ dashActiveTrades' = {}
    /\ dashStats' = NoStats
    /\ net' = Orphan("Dashboard")
    /\ effects' = <<>>
    /\ UNCHANGED <<component, uncaught, remoteVars, notDash>>

\* setInterval(fetchTrades, 5000) fires.
dashLedgerTick ==
    /\ dashLedgerInterval
    /\ Room
    /\ net' = Add(net, dashFetchTrades("fetchTrades", NoArg, TRUE))
    /\ effects' = <<Sent("GET_trades")>>
    /\ UNCHANGED <<component, uncaught, remoteVars, notDash, dashVars>>

\* fetchTrades after its await, where no handler awaits it.
dashFetchTradesDone(r) ==
    /\ r.view = "Dashboard" /\ r.op = "GET_trades" /\ r.by # "handleReset"
    /\ r.phase = "served"
    /\ dashActiveTrades' = dashApplyTrades(r, TRUE)
    /\ dashStats' = dashApplyStats(r, TRUE)
    /\ net' = Settle(r, TRUE)
    /\ effects' = dashFetchTradesLog(TRUE)
    /\ UNCHANGED <<component, uncaught, remoteVars, notDash, dashMounted, dashLedgerInterval, symbol,
                   data, dashLoading, runningBot>>

dashFetchTradesCatch(r) ==
    /\ r.view = "Dashboard" /\ r.op = "GET_trades" /\ r.by # "handleReset"
    /\ dashActiveTrades' = dashApplyTrades(r, FALSE)
    /\ dashStats' = dashApplyStats(r, FALSE)
    /\ net' = Remove(net, r)
    /\ effects' = dashFetchTradesLog(FALSE)
    /\ UNCHANGED <<component, uncaught, remoteVars, notDash, dashMounted, dashLedgerInterval, symbol,
                   data, dashLoading, runningBot>>

\* The symbol select: onChange={(e) => setSymbol(e.target.value)}.
selectSymbol(sym) ==
    /\ dashMounted
    /\ sym # symbol
    /\ symbol' = sym
    /\ effects' = <<>>
    /\ UNCHANGED <<component, net, uncaught, remoteVars, notDash, dashMounted, dashLedgerInterval,
                   data, dashLoading, runningBot, dashActiveTrades, dashStats>>

\* The Scan button: disabled={loading}.
handleScan ==
    /\ dashMounted /\ ~dashLoading
    /\ Room
    /\ dashLoading' = TRUE
    /\ net' = Add(net, handleScanRequest("handleScan", symbol, TRUE))
    /\ effects' = <<Sent("POST_scan")>>
    /\ UNCHANGED <<component, uncaught, remoteVars, notDash, dashMounted, dashLedgerInterval, symbol,
                   data, runningBot, dashActiveTrades, dashStats>>

\* A handleScan that empties the ledger replica when the scan was filtered.
handleScanResponseClears(r) ==
    /\ r.by = "handleScan"
    /\ \E resp \in ScanResponses :
          /\ data' = handleScanData(r, TRUE, resp)
          /\ effects' = handleScanAlerts(r, TRUE, resp)
          /\ dashActiveTrades' = IF r.live /\ resp.status = "filtered" THEN {}
                                 ELSE dashActiveTrades
    /\ dashLoading' = IF r.live THEN FALSE ELSE dashLoading
    /\ net' = Remove(net, r)
    /\ UNCHANGED <<component, uncaught, remoteVars, notDash, dashMounted, dashLedgerInterval, symbol,
                   runningBot, dashStats>>

\* handleScan after its await, pressed on the button or run by the mount effect.
handleScanResponse(r) ==
    /\ r.by = "handleScan"
    /\ \E resp \in ScanResponses :
          /\ data' = handleScanData(r, TRUE, resp)
          /\ effects' = handleScanAlerts(r, TRUE, resp)
    /\ dashLoading' = IF r.live THEN FALSE ELSE dashLoading
    /\ net' = Remove(net, r)
    /\ UNCHANGED <<component, uncaught, remoteVars, notDash, dashMounted, dashLedgerInterval, symbol,
                   runningBot, dashActiveTrades, dashStats>>

handleScanCatch(r) ==
    /\ r.by = "handleScan"
    /\ dashLoading' = IF r.live THEN FALSE ELSE dashLoading
    /\ net' = Remove(net, r)
    /\ effects' = handleScanAlerts(r, FALSE, NoResp)
    /\ UNCHANGED <<component, uncaught, remoteVars, notDash, dashMounted, dashLedgerInterval, symbol,
                   data, runningBot, dashActiveTrades, dashStats>>

\* The Run Bot button: disabled={runningBot}.
handleRunBot ==
    /\ dashMounted /\ ~runningBot
    /\ RoomFor(2)
    /\ runningBot' = TRUE
    /\ net' = Add(net, Request("Dashboard", "POST_run_bot", "handleRunBot",
                               [symbol |-> symbol]))
    /\ effects' = <<Sent("POST_run_bot")>>
    /\ UNCHANGED <<component, uncaught, remoteVars, notDash, dashMounted, dashLedgerInterval, symbol,
                   data, dashLoading, dashActiveTrades, dashStats>>

\* handleRunBot after the POST.  On success it reads response.data.trade.symbol
\* (a TypeError, caught below, when no trade came back), alerts, calls
\* fetchTrades(), setSymbol(trade.symbol) and awaits handleScan(), which still
\* sees the symbol of the render in which the button was pressed.
handleRunBotResponse(r) ==
    /\ r.by = "handleRunBot" /\ r.op = "POST_run_bot" /\ r.phase = "served"
    /\ IF r.resp.status = "success" /\ r.resp.trade # NoTrade
       THEN /\ effects' = <<Alert("run_ok", [symbol |-> r.resp.trade,
                                             total_scanned |-> r.resp.total_scanned]),
                            Sent("GET_trades"), Sent("POST_scan")>>
            /\ symbol' = IF r.live THEN r.resp.trade ELSE symbol
            /\ dashLoading' = IF r.live THEN TRUE ELSE dashLoading
            /\ net' = Add(Add(Remove(net, r), dashFetchTrades("fetchTrades", NoArg, r.live)),
                          handleScanRequest("handleRunBot", r.arg.symbol, r.live))
            /\ UNCHANGED runningBot
       ELSE /\ effects' = IF r.resp.status = "success"
                          THEN <<Log("Error running bot"), Alert("run_failed", NoArg)>>
                          ELSE <<>>
            /\ runningBot' = IF r.live THEN FALSE ELSE runningBot
            /\ net' = Remove(net, r)
            /\ UNCHANGED <<symbol, dashLoading>>
    /\ UNCHANGED <<component, uncaught, remoteVars, notDash, dashMounted, dashLedgerInterval, data,
                   dashActiveTrades, dashStats>>

handleRunBotCatch(r) ==
    /\ r.by = "handleRunBot" /\ r.op = "POST_run_bot"
    /\ effects' = <<Log("Error running bot"), Alert("run_failed", NoArg)>>
    /\ runningBot' = IF r.live THEN FALSE ELSE runningBot
    /\ net' = Remove(net, r)
    /\ UNCHANGED <<component, uncaught, remoteVars, notDash, dashMounted, dashLedgerInterval, symbol,
                   data, dashLoading, dashActiveTrades, dashStats>>

\* handleRunBot after `await handleScan()`: handleScan has handled its own
\* outcome; finally setRunningBot(false).
handleRunBotScanned(r, ok) ==
    /\ r.by = "handleRunBot" /\ r.op = "POST_scan"
    /\ \E resp \in ScanResponses :
          /\ data' = handleScanData(r, ok, resp)
          /\ effects' = handleScanAlerts(r, ok, resp)
    /\ dashLoading' = IF r.live THEN FALSE ELSE dashLoading
    /\ runningBot' = IF r.live THEN FALSE ELSE runningBot
    /\ net' = Remove(net, r)
    /\ UNCHANGED <<component, uncaught, remoteVars, notDash, dashMounted, dashLedgerInterval, symbol,
                   dashActiveTrades, dashStats>>

\* The Reset button, confirmed by the user, who presses it again only once the
\* previous reset is over.
handleReset ==
    /\ dashMounted
    /\ \A x \in Calls : x.by # "handleReset"
    /\ Room
    /\ net' = Add(net, Request("Dashboard", "POST_reset", "handleReset",
                               [symbol |-> symbol]))
    /\ effects' = <<Sent("POST_reset")>>
    /\ UNCHANGED <<component, uncaught, remoteVars, notDash, dashVars>>

\* A handleReset that refreshes the ledger first and reports afterwards.
handleResetResponseRefreshFirst(r) ==
    /\ r.by = "handleReset" /\ r.op = "POST_reset" /\ r.phase = "served"
    /\ IF r.resp.status = "success"
       THEN /\ effects' = <<Sent("GET_trades"),
                            Alert("reset_ok", [message |-> r.resp.message])>>
            /\ net' = Add(Remove(net, r), dashFetchTrades("handleReset", r.arg, r.live))
       ELSE /\ effects' = <<>>
            /\ net' = Remove(net, r)
    /\ UNCHANGED <<component, uncaught, remoteVars, notDash, dashVars>>

\* handleReset after the POST: on success alert(response.data.message), then
\* await fetchTrades().
handleResetResponse(r) ==
    /\ r.by = "handleReset" /\ r.op = "POST_reset" /\ r.phase = "served"
    /\ IF r.resp.status = "success"
       THEN /\ effects' = <<Alert("reset_ok", [message |-> r.resp.message]),
                            Sent("GET_trades")>>
            /\ net' = Add(Remove(net, r), dashFetchTrades("handleReset", r.arg, r.live))
       ELSE /\ effects' = <<>>
            /\ net' = Remove(net, r)
    /\ UNCHANGED <<component, uncaught, remoteVars, notDash, dashVars>>

handleResetCatch(r) ==
    /\ r.by = "handleReset" /\ r.op = "POST_reset"
    /\ effects' = <<Log("Error resetting account"), Alert("reset_failed", NoArg)>>
    /\ net' = Remove(net, r)
    /\ UNCHANGED <<component, uncaught, remoteVars, notDash, dashVars>>

\* handleReset after `await fetchTrades()`: then await handleScan().
handleResetRefreshed(r, ok) ==
    /\ r.by = "handleReset" /\ r.op = "GET_trades"
    /\ ok => r.phase = "served"
    /\ dashActiveTrades' = dashApplyTrades(r, ok)
    /\ dashStats' = dashApplyStats(r, ok)
    /\ dashLoading' = IF r.live THEN TRUE ELSE dashLoading
    /\ net' = Add(Settle(r, ok), handleScanRequest("handleReset", r.arg.symbol, r.live))
    /\ effects' = dashFetchTradesLog(ok) \o <<Sent("POST_scan")>>
    /\ UNCHANGED <<component, uncaught, remoteVars, notDash, dashMounted, dashLedgerInterval, symbol,
                   data, runningBot>>

\* handleReset after `await handleScan()`.
handleResetScanned(r, ok) ==
    /\ r.by = "handleReset" /\ r.op = "POST_scan"
    /\ \E resp \in ScanResponses :
          /\ data' = handleScanData(r, ok, resp)
          /\ effects' = handleScanAlerts(r, ok, resp)
    /\ dashLoading' = IF r.live THEN FALSE ELSE dashLoading
    /\ net' = Remove(net, r)
    /\ UNCHANGED <<component, uncaught, remoteVars, notDash, dashMounted, dashLedgerInterval, symbol,
                   runningBot, dashActiveTrades, dashStats>>

\* The close button of a displayed trade (TradePanel onCloseTrade).
dashHandleCloseTrade(tradeId) ==
    /\ dashMounted
    /\ tradeId \in dashActiveTrades
    /\ Room
    /\ net' = Add(net, Request("Dashboard", "POST_close_trade", "handleCloseTrade",
                               [trade_id |-> tradeId]))
    /\ effects' = <<Sent("POST_close_trade")>>
    /\ UNCHANGED <<component, uncaught, remoteVars, notDash, dashVars>>

dashHandleCloseTradeResponse(r) ==
    /\ r.view = "Dashboard" /\ r.op = "POST_close_trade" /\ r.phase = "served"
    /\ net' = Add(Remove(net, r), dashFetchTrades("fetchTrades", NoArg, r.live))
    /\ effects' = <<Sent("GET_trades")>>
    /\ UNCHANGED <<component, uncaught, remoteVars, notDash, dashVars>>

dashHandleCloseTradeCatch(r) ==
    /\ r.view = "Dashboard" /\ r.op = "POST_close_trade"
    /\ net' = Remove(net, r)
    /\ effects' = <<Log("Error closing trade"), Alert("close_failed", NoArg)>>
    /\ UNCHANGED <<component, uncaught, remoteVars, notDash, dashVars>>

\* The engine serves a call of the view.
DashboardServe(r) ==
    /\ r.view = "Dashboard" /\ r.phase = "sent"
    /\ ServeTrades(r) \/ ServeRunBot(r) \/ ServeCloseTrade(r) \/ ServeReset(r)
    /\ effects' = <<>>
    /\ UNCHANGED <<component, uncaught, clientVars>>

DashboardNext ==
    \/ DashboardMount
    \/ DashboardUnmount
    \/ dashLedgerTick
    \/ \E sym \in Symbols : selectSymbol(sym)
    \/ handleScan
    \/ handleRunBot
    \/ handleReset
    \/ \E t \in TradeIds : dashHandleCloseTrade(t)
    \/ \E r \in Calls :
          \/ DashboardServe(r)
          \/ dashFetchTradesDone(r)
          \/ dashFetchTradesCatch(r)
          \/ handleScanResponse(r)
          \/ handleScanCatch(r)
          \/ handleRunBotResponse(r)
          \/ handleRunBotCatch(r)
          \/ \E ok \in BOOLEAN : handleRunBotScanned(r, ok)
          \/ handleResetResponse(r)
          \/ handleResetCatch(r)
          \/ \E ok \in BOOLEAN : handleResetRefreshed(r, ok)
          \/ \E ok \in BOOLEAN : handleResetScanned(r, ok)
          \/ dashHandleCloseTradeResponse(r)
          \/ dashHandleCloseTradeCatch(r)

----------------------------------------------------------------------------
\* TradeHistory

Pnls == {-1, 0, 1}
Filters == {"ALL", "WIN", "LOSS"}

\* The histories the engine may hold: up to MaxRecords closed trades T1, T2,
\* ..., each with its pnl and the status that goes with it, in the order the
\* engine reports them.
HistoryOf(ps) ==
    [i \in 1..Len(ps) |->
        [trade_id |-> "T" \o ToString(i), pnl |-> ps[i],
         status |-> IF ps[i] > 0 THEN "CLOSED_WIN" ELSE "CLOSED_LOSS"]]
RecordSets == {HistoryOf(ps) : ps \in UNION {[1..n -> Pnls] : n \in 0..MaxRecords}}

\* GET /trades as the history page reads it; a response may come without the
\* recent_history field.
ServeHistory(r) ==
    /\ r.op = "GET_trades"
    /\ \/ net' = Served(r, [status |-> "ok", recent_history |-> remoteRecords])
       \/ net' = Served(r, [status |-> "error"])
    /\ UNCHANGED remoteVars

\* fetchHistory up to its await.
fetchHistory == Request("TradeHistory", "GET_trades", "fetchHistory", NoArg)

\* response.data.recent_history || []
recentHistory(resp) ==
    IF "recent_history" \in DOMAIN resp THEN resp.recent_history ELSE <<>>

\* A callback that counts a trade without gain or loss as a gain as well.
keepsTradeLenient(f, trade) ==
    IF f = "ALL" THEN TRUE
    ELSE IF f = "WIN" THEN trade.pnl >= 0
    ELSE IF f = "LOSS" THEN trade.pnl <= 0
    ELSE TRUE

\* A callback that counts a trade without gain or loss as no loss.
keepsTradeStrict(f, trade) ==
    IF f = "ALL" THEN TRUE
    ELSE IF f = "WIN" THEN trade.pnl > 0
    ELSE IF f = "LOSS" THEN trade.pnl < 0
    ELSE TRUE

\* The callback of trades.filter(...).
keepsTrade(f, trade) ==
    IF f = "ALL" THEN TRUE
    ELSE IF f = "WIN" THEN trade.pnl > 0
    ELSE IF f = "LOSS" THEN trade.pnl <= 0
    ELSE TRUE

\* const filteredTrades = trades.filter(...): computed at every render from the
\* records and the filter of the state.
filteredTrades == SelectSeq(trades, LAMBDA trade : keepsTrade(filter, trade))

\* useEffect(() => { fetchHistory(); }, []).
TradeHistoryMount ==
    /\ ~histMounted
    /\ NoOrphans("TradeHistory")
    /\ Room
    /\ histMounted' = TRUE
    /\ trades' = <<>>
    /\ histLoading' = TRUE
    /\ filter' = "ALL"
    /\ net' = Add(net, fetchHistory)
    /\ effects' = <<Sent("GET_trades")>>
    /\ UNCHANGED <<component, uncaught, remoteVars, remoteRecords, notHist>>

\* The page goes away with its state; the effect has no cleanup.
TradeHistoryUnmount ==
    /\ histMounted
    /\ histMounted' = FALSE
    /\ trades' = <<>>
    /\ histLoading' = TRUE
    /\ filter' = "ALL"
    /\ net' = Orphan("TradeHistory")
    /\ effects' = <<>>
    /\ UNCHANGED <<component, uncaught, remoteVars, remoteRecords, notHist>>

\* A filter button that fetches the history again.
setFilterRefetches(f) ==
    /\ histMounted
    /\ Room
    /\ filter' = f
    /\ net' = Add(net, fetchHistory)
    /\ effects' = <<Sent("GET_trades")>>
    /\ UNCHANGED <<component, uncaught, remoteVars, remoteRecords, notHist,
                   histMounted, trades, histLoading>>

\* onClick={() => setFilter(f)} of the All, Wins and Losses buttons.
setFilter(f) ==
    /\ histMounted
    /\ filter' = f
    /\ net' = net
    /\ effects' = <<>>
    /\ UNCHANGED <<component, uncaught, remoteVars, remoteRecords, notHist,
                   histMounted, trades, histLoading>>

\* fetchHistory after its await: setTrades, then the finally block.
fetchHistoryDone(r) ==
    /\ r.by = "fetchHistory" /\ r.phase = "served"
    /\ trades' = IF r.live THEN recentHistory(r.resp) ELSE trades
    /\ histLoading' = IF r.live THEN FALSE ELSE histLoading
    /\ net' = Remove(net, r)
    /\ effects' = <<>>
    /\ UNCHANGED <<component, uncaught, remoteVars, remoteRecords, notHist,
                   histMounted, filter>>

\* The catch block of fetchHistory: console.error, then the finally block.
fetchHistoryCatch(r) ==
    /\ r.by = "fetchHistory"
    /\ histLoading' = IF r.live THEN FALSE ELSE histLoading
    /\ net' = Remove(net, r)
    /\ effects' = <<Log("Error fetching trade history")>>
    /\ UNCHANGED <<component, uncaught, remoteVars, remoteRecords, notHist,
                   histMounted, trades, filter>>

TradeHistoryServe(r) ==
    /\ r.view = "TradeHistory" /\ r.phase = "sent"
    /\ ServeHistory(r)
    /\ effects' = <<>>
    /\ UNCHANGED <<component, uncaught, clientVars>>

TradeHistoryNext ==
    \/ TradeHistoryMount
    \/ TradeHistoryUnmount
    \/ \E f \in Filters : setFilter(f)
    \/ \E r \in Calls :
          \/ TradeHistoryServe(r)
          \/ fetchHistoryDone(r)
          \/ fetchHistoryCatch(r)

----------------------------------------------------------------------------
\* Configuration: the base URL of the remote engine

\* A string is the sequence of its characters.
Api == <<"/", "a", "p", "i">>
UrlChars == {"'", " ", "/", "a", "p", "i"}
Unset == [set |-> FALSE, value |-> <<>>]
EnvValues ==
    {Unset} \cup {[set |-> TRUE, value |-> v] :
                     v \in UNION {[1..n -> UrlChars] : n \in 0..MaxUrl}}

\* import.meta.env.VITE_API_URL || '': undefined and '' both give ''.
orEmpty(env) == IF env.set THEN env.value ELSE <<>>

\* s.replace(/['"]/g, '')
replaceQuotes(s) == SelectSeq(s, LAMBDA c : c \notin {"'", "\""})

\* s.trim()
RECURSIVE trimStart(_)
trimStart(s) == IF s # <<>> /\ Head(s) = " " THEN trimStart(Tail(s)) ELSE s
RECURSIVE trimEnd(_)
trimEnd(s) ==
    IF s # <<>> /\ s[Len(s)] = " " THEN trimEnd(SubSeq(s, 1, Len(s) - 1)) ELSE s
trim(s) == trimEnd(trimStart(s))

\* s.replace(/\/$/, '')
replaceTrailingSlash(s) ==
    IF s # <<>> /\ s[Len(s)] = "/" THEN SubSeq(s, 1, Len(s) - 1) ELSE s

\* s.endsWith(suffix)
endsWith(s, suffix) ==
    /\ Len(s) >= Len(suffix)
    /\ SubSeq(s, Len(s) - Len(suffix) + 1, Len(s)) = suffix

\* The module with the normalisation: quotes, trim, trailing slash, then the
\* /api suffix when the value is not empty, then the default.
apiUrl(env) ==
    LET normal == replaceTrailingSlash(trim(replaceQuotes(orEmpty(env))))
        suffixed == IF normal # <<>> /\ ~endsWith(normal, Api)
                    THEN normal \o Api ELSE normal
    IN  IF suffixed = <<>> THEN Api ELSE suffixed

\* The module that removes a trailing slash and appends /api.
baseUrl(env) == replaceTrailingSlash(orEmpty(env))
baseUrlApi(env) ==
    IF endsWith(baseUrl(env), Api) THEN baseUrl(env) ELSE baseUrl(env) \o Api

\* The module of config.js: import.meta.env.VITE_API_URL || '/api'.
envOrApi(env) == IF orEmpty(env) = <<>> THEN Api ELSE env.value

\* The three modules are evaluated once, when the page loads.
ResolvedApiUrls(env) ==
    [normalised |-> apiUrl(env), suffixed |-> baseUrlApi(env), config |-> envOrApi(env)]

\* The API_URL in scope where each component builds its request URLs: the
\* status bar and the history page import it from '../config'; AutoTrade and
\* the Dashboard declare their own constant.
Views == {"StatusBar", "AutoTrade", "Dashboard", "TradeHistory"}
BaseOf(view) ==
    IF view \in {"AutoTrade", "Dashboard"} THEN Api ELSE API_URL.config

NotAddressed == [view |-> "none", base |-> <<>>]

\* A component issues a request: axios.get / axios.post of `${API_URL}/...`.
Address(view) ==
    /\ addressed' = [view |-> view, base |-> BaseOf(view)]
    /\ UNCHANGED <<component, net, effects, uncaught, remoteVars, viteApiUrl, API_URL,
                   issueOrder, barVars, autoVars, dashVars, histVars>>

ConfigNext == \E view \in Views : Address(view)

----------------------------------------------------------------------------
Components == {"StatusBar", "AutoTrade", "Dashboard", "TradeHistory"}

\* The state of the page when it has loaded: nothing is mounted, no call is
\* outstanding and the configuration modules have been evaluated.
InitPage ==
    /\ API_URL = ResolvedApiUrls(viteApiUrl)
    /\ addressed = NotAddressed
    /\ net = EmptyBag
    /\ effects = <<>>
    /\ uncaught = FALSE
    /\ remoteRunning = FALSE
    /\ remoteTradeCount = 0
    /\ remoteActive = {}
    /\ remoteHistory = {}
    /\ barMounted = FALSE
    /\ barInterval = FALSE
    /\ status = InitialStatus
    /\ loading = FALSE
    /\ autoMounted = FALSE
    /\ autoLedgerInterval = FALSE
    /\ cycleInterval = 0
    /\ autoMode = FALSE
    /\ scanning = FALSE
    /\ selectedOpportunity = NoSelection
    /\ opportunities = <<>>
    /\ lastScan = NoScan
    /\ autoActiveTrades = {}
    /\ autoStats = NoStats
    /\ dashMounted = FALSE
    /\ dashLedgerInterval = FALSE
    /\ symbol = "EURUSD"
    /\ data = NoData
    /\ dashLoading = FALSE
    /\ runningBot = FALSE
    /\ dashActiveTrades = {}
    /\ dashStats = NoStats
    /\ histMounted = FALSE
    /\ trades = <<>>
    /\ histLoading = TRUE
    /\ filter = "ALL"
    /\ remoteRecords \in IF component = "TradeHistory" THEN RecordSets ELSE {<<>>}

\* The components run against the build without VITE_API_URL.
Init ==
    /\ component \in Components
    /\ viteApiUrl = Unset
    /\ issueOrder = FALSE
    /\ InitPage

\* The components of the page keep their state apart and meet only in the
\* engine, which every specification lets act on its own besides.  A behaviour
\* runs the handlers of one component.
Next ==
    \/ component = "StatusBar" /\ StatusBarNext
    \/ component = "AutoTrade" /\ AutoTradeNext
    \/ component = "Dashboard" /\ DashboardNext
    \/ component = "TradeHistory" /\ TradeHistoryNext

InitStatusBar == Init /\ component = "StatusBar"
InitAutoTrade == Init /\ component = "AutoTrade"
InitDashboard == Init /\ component = "Dashboard"
InitTradeHistory == Init /\ component = "TradeHistory"
InitConfig ==
    /\ component = "Config"
    /\ viteApiUrl \in EnvValues
    /\ issueOrder = FALSE
    /\ InitPage

\* The page: App renders the view of the active tab and no other, so a view
\* is mounted only while no other view is; a switch of tabs unmounts the view
\* of the old tab and then mounts the view of the new one.  The views run
\* their effects here: the mounts and unmounts, the intervals, the auto mode
\* toggle with its cycles, and the completions of the calls these issue.
Rendered ==
    {tab \in {"dashboard", "autotrade", "history"} :
        \/ tab = "dashboard" /\ dashMounted
        \/ tab = "autotrade" /\ autoMounted
        \/ tab = "history" /\ histMounted}

AppNext ==
    /\ \/ DashboardMount
       \/ DashboardUnmount
       \/ dashLedgerTick
       \/ AutoTradeMount
       \/ AutoTradeUnmount
       \/ autoLedgerTick
       \/ toggleAutoMode
       \/ cycleTick
       \/ TradeHistoryMount
       \/ TradeHistoryUnmount
       \/ \E r \in Calls :
             \/ DashboardServe(r)
             \/ dashFetchTradesDone(r)
             \/ dashFetchTradesCatch(r)
             \/ handleScanResponse(r)
             \/ handleScanCatch(r)
             \/ AutoTradeServe(r)
             \/ autoFetchTradesDone(r)
             \/ autoFetchTradesCatch(r)
             \/ startAutoTradeResponse(r)
             \/ startAutoTradeCatch(r)
             \/ TradeHistoryServe(r)
             \/ fetchHistoryDone(r)
             \/ fetchHistoryCatch(r)
    /\ Cardinality(Rendered') <= 1

InitApp ==
    /\ component = "App"
    /\ viteApiUrl = Unset
    /\ issueOrder = FALSE
    /\ InitPage

\* The components with the order of issue of their fetches on record.
InitIssueOrder ==
    /\ component \in Components
    /\ viteApiUrl = Unset
    /\ issueOrder = TRUE
    /\ InitPage

Spec == Init /\ [][Next]_vars
SpecStatusBar == InitStatusBar /\ [][StatusBarNext]_vars
SpecAutoTrade == InitAutoTrade /\ [][AutoTradeNext]_vars
SpecDashboard == InitDashboard /\ [][DashboardNext]_vars
SpecTradeHistory == InitTradeHistory /\ [][TradeHistoryNext]_vars
SpecConfig == InitConfig /\ [][ConfigNext]_vars
SpecIssueOrder == InitIssueOrder /\ [][Next]_vars
SpecApp == InitApp /\ [][AppNext]_vars

----------------------------------------------------------------------------
\* Properties

\* The calls in bag b that handler `by` of a view still mounted has issued.
CallsOf(b, view, op, by) ==
    BagCardinality([r \in {x \in BagToSet(b) : /\ x.view = view /\ x.op = op
                                               /\ x.by = by /\ x.live} |-> b[r]])

\* A handler step raised effect e.
Raised(es, e) == \E i \in DOMAIN es : es[i] = e

\* A handler step went through a catch block: each of them starts by logging
\* the error to the console.
Failed(es) == es # <<>> /\ es[1].t = "console.error"

\* The alerts of the catch blocks: a remote call that did not complete.
TransportAlerts ==
    {"start_failed", "stop_failed", "scan_failed", "run_failed", "reset_failed",
     "close_failed"}

\* C1: at every instant at most one GET /auto-trade/status issued by the status
\* poller (the mount effect and its 5 s interval) is outstanding, so a tick that
\* fires while a status fetch is outstanding issues none.
C1_AtMostOneStatusFetch ==
    CallsOf(net, "StatusBar", "GET_status", "fetchStatus") <= 1

\* C2: a ledger tick of a mounted view issues its GET /trades only when no
\* ledger fetch of that view is outstanding, so that the poller never has two
\* requests outstanding.
C2_AtMostOneLedgerFetch ==
    [][/\ autoLedgerTick => CallsOf(net, "AutoTrade", "GET_trades", "fetchTrades") = 0
       /\ dashLedgerTick => CallsOf(net, "Dashboard", "GET_trades", "fetchTrades") = 0]_vars

\* C3: while auto mode is on, at most one POST /run_bot of startAutoTrade is
\* outstanding: no cycle starts while the previous one has not completed.
C3_AtMostOneCycle ==
    autoMode => CallsOf(net, "AutoTrade", "POST_run_bot", "startAutoTrade") <= 1

\* C4: the response of a cycle that was outstanding when auto mode was turned
\* off changes none of opportunities, selectedOpportunity and lastScan, and
\* triggers no ledger refresh.
C4_DiscardAfterStop ==
    [][\A r \in Calls :
          (~autoMode /\ r.live /\ startAutoTradeResponse(r)) =>
              /\ opportunities' = opportunities
              /\ selectedOpportunity' = selectedOpportunity
              /\ lastScan' = lastScan
              /\ ~Raised(effects', Sent("GET_trades"))]_vars

\* C5: a start (auto mode turned on) leaves the intent Running with one live
\* cycle timer and at most one cycle request outstanding, also when it follows
\* a stop issued while a cycle was in flight.
C5_IdempotentStart ==
    [][(~autoMode /\ toggleAutoMode) =>
          /\ autoMode'
          /\ cycleInterval' = 1
          /\ CallsOf(net', "AutoTrade", "POST_run_bot", "startAutoTrade") <= 1]_vars

\* C6: start() treats started and already_running alike: either is followed by
\* the refresh of the status replica, and once the refresh is over success is
\* reported and the replica says running.
C6_StartSucceeds ==
    [][\A r \in Calls :
          /\ (handleStartResponse(r) /\ r.resp.status \in {"started", "already_running"})
                => Raised(effects', Sent("GET_status"))
          /\ \A ok \in BOOLEAN :
                (r.live /\ handleStartRefreshed(r, ok)) =>
                    /\ Raised(effects', Alert("started", NoArg))
                    /\ status'.is_running]_vars

\* A start, stop or reset command completes with a status other than the
\* expected one.
UnexpectedStatus(r) ==
    \/ handleStartResponse(r) /\ r.resp.status \notin {"started", "already_running"}
    \/ handleStopResponse(r) /\ r.resp.status # "stopped"
    \/ handleResetResponse(r) /\ r.resp.status # "success"

\* C7: a start, stop or reset that completes with an unexpected status is
\* reported to the user by an alert that is none of the transport-failure
\* alerts, and the running state stays at its value before the command.
C7_CommandFailureReported ==
    [][\A r \in Calls :
          (r.live /\ UnexpectedStatus(r)) =>
              /\ \E i \in DOMAIN effects' :
                    /\ effects'[i].t = "alert"
                    /\ effects'[i].kind \notin TransportAlerts
              /\ status' = status
              /\ autoMode' = autoMode]_vars

\* C8: after a stop answered by stopped, the total trade count of that response
\* is reported and the replica says stopped; a stop that was not answered by
\* stopped leaves the running state as it was.
C8_StopOutcome ==
    [][\A r \in Calls :
          /\ \A ok \in BOOLEAN :
                (r.live /\ handleStopRefreshed(r, ok)) =>
                    /\ Raised(effects', Alert("stopped",
                                              [total_trades |-> r.arg.total_trades]))
                    /\ ~status'.is_running
          /\ (handleStopCatch(r) \/ (handleStopResponse(r) /\ r.resp.status # "stopped"))
                => status' = status]_vars

\* The timers of the three components.
Timers == <<barInterval, autoLedgerInterval, cycleInterval, dashLedgerInterval>>

\* C9: a failed fetch of the status poller or of a ledger poller leaves the
\* replica (status; activeTrades and stats) and the poller's interval as they
\* were, and an interval that is scheduled issues its fetch on the next tick.
C9_PollFailureKeepsReplica ==
    /\ [][Failed(effects') => \A r \in Calls :
            /\ fetchStatusCatch(r) => status' = status /\ barInterval' = barInterval
            /\ autoFetchTradesCatch(r) =>
                  /\ autoActiveTrades' = autoActiveTrades
                  /\ autoStats' = autoStats
                  /\ autoLedgerInterval' = autoLedgerInterval
            /\ dashFetchTradesCatch(r) =>
                  /\ dashActiveTrades' = dashActiveTrades
                  /\ dashStats' = dashStats
                  /\ dashLedgerInterval' = dashLedgerInterval]_vars
    /\ [][/\ StatusTick =>
               CallsOf(net', "StatusBar", "GET_status", "fetchStatus")
                   = CallsOf(net, "StatusBar", "GET_status", "fetchStatus") + 1
          /\ autoLedgerTick =>
               CallsOf(net', "AutoTrade", "GET_trades", "fetchTrades")
                   = CallsOf(net, "AutoTrade", "GET_trades", "fetchTrades") + 1
          /\ dashLedgerTick =>
               CallsOf(net', "Dashboard", "GET_trades", "fetchTrades")
                   = CallsOf(net, "Dashboard", "GET_trades", "fetchTrades") + 1]_vars
    /\ [](/\ (component = "StatusBar" /\ barInterval /\ Room) => ENABLED StatusTick
          /\ (component = "AutoTrade" /\ autoLedgerInterval /\ Room) => ENABLED autoLedgerTick
          /\ (component = "Dashboard" /\ dashLedgerInterval /\ Room) => ENABLED dashLedgerTick)

\* A status poll has just failed while the replica said running; the interval
\* is still scheduled.
C9_Witness ==
    /\ effects = <<Log("Error fetching auto-trade status")>>
    /\ status.is_running
    /\ barInterval

\* A remote call of a handler fails: the step of its catch block, or of the
\* handler that awaited a fetch or a scan which failed.
StartStopFails(r) ==
    \/ handleStartCatch(r) \/ handleStartRefreshed(r, FALSE)
    \/ handleStopCatch(r) \/ handleStopRefreshed(r, FALSE)
PollFails(r) ==
    fetchStatusCatch(r) \/ autoFetchTradesCatch(r) \/ dashFetchTradesCatch(r)
CloseOrResetFails(r) ==
    \/ autoHandleCloseTradeCatch(r) \/ dashHandleCloseTradeCatch(r)
    \/ handleResetCatch(r) \/ handleResetRefreshed(r, FALSE)
ScanFails(r) == handleScanCatch(r) \/ handleResetScanned(r, FALSE)
RunFails(r) == handleRunBotCatch(r) \/ handleRunBotScanned(r, FALSE)

\* C10: no failure of a remote call escapes its handler; the step that handles
\* it leaves every timer as scheduled as it was and clears the busy flag the
\* handler had set (loading; scanning; loading and runningBot of the Dashboard).
C10_FailuresCaught ==
    /\ []~uncaught
    /\ [][Failed(effects') => \A r \in Calls :
            /\ (\/ StartStopFails(r) \/ PollFails(r) \/ CloseOrResetFails(r)
                \/ ScanFails(r) \/ RunFails(r) \/ startAutoTradeCatch(r))
                  => ~uncaught' /\ Timers' = Timers
            /\ StartStopFails(r) => ~loading'
            /\ startAutoTradeCatch(r) => ~scanning'
            /\ ScanFails(r) => ~dashLoading'
            /\ handleRunBotCatch(r) => ~runningBot'
            /\ handleRunBotScanned(r, FALSE) => ~runningBot' /\ ~dashLoading']_vars

\* The start command has just failed: the failure is reported, the busy flag is
\* cleared and the status interval is still scheduled.
C10_Witness ==
    /\ effects = <<Log("Error starting auto-trade"), Alert("start_failed", NoArg)>>
    /\ barMounted /\ barInterval
    /\ ~loading
    /\ ~uncaught

StatusFetches(b) == CallsOf(b, "StatusBar", "GET_status", "fetchStatus")

\* C11: mounting the status bar issues exactly one status fetch, at once and
\* before any tick of its interval, which the mount schedules; from then on
\* every tick attempts one fetch, and the interval is there to tick exactly as
\* long as the bar is mounted.
C11_StatusStartup ==
    /\ [][StatusBarMount =>
            /\ ~barInterval /\ barInterval'
            /\ effects' = <<Sent("GET_status")>>
            /\ StatusFetches(net') = StatusFetches(net) + 1]_vars
    /\ [][StatusTick =>
            /\ barMounted
            /\ effects' = <<Sent("GET_status")>>
            /\ StatusFetches(net') = StatusFetches(net) + 1]_vars
    /\ [](barInterval <=> barMounted)
    /\ []((barMounted /\ Room) => ENABLED StatusTick)

\* The fetch of the mount is outstanding and a tick has just added its own.
C11_Witness ==
    /\ barMounted /\ barInterval
    /\ effects = <<Sent("GET_status")>>
    /\ StatusFetches(net) = 2
    /\ \A r \in Calls : r.phase = "sent"

CycleRequests(b) == CallsOf(b, "AutoTrade", "POST_run_bot", "startAutoTrade")
LedgerFetches(b) == CallsOf(b, "AutoTrade", "GET_trades", "fetchTrades")

\* C12: turning auto mode on starts a cycle (one POST /run_bot) and schedules
\* the 60 s interval; while auto mode is on every tick of the interval starts
\* one more; and each cycle whose response says success replaces the
\* opportunity list by the batch of the response and issues a ledger fetch.
C12_CycleWhileAutoMode ==
    /\ [][(toggleAutoMode /\ autoMode') =>
            /\ cycleInterval' = 1
            /\ CycleRequests(net') = CycleRequests(net) + 1]_vars
    /\ [][cycleTick =>
            /\ autoMode
            /\ CycleRequests(net') = CycleRequests(net) + 1]_vars
    /\ []((autoMode /\ Room) => ENABLED cycleTick)
    /\ [][\A r \in Calls :
            (startAutoTradeResponse(r) /\ r.live /\ r.resp.status = "success") =>
                /\ opportunities' = r.resp.all_opportunities
                /\ LedgerFetches(net') = LedgerFetches(net) + 1]_vars

\* A cycle of auto mode has just succeeded with a batch of two: the list holds
\* it and the ledger fetch is outstanding.
C12_Witness ==
    /\ autoMode /\ cycleInterval = 1
    /\ effects = <<Sent("GET_trades")>>
    /\ lastScan # NoScan
    /\ Len(opportunities) = 2
    /\ LedgerFetches(net) = 1
    /\ CycleRequests(net) = 0

\* The cycle requests outstanding, of a mounted view or not.
CycleCalls(b) ==
    BagCardinality([r \in {x \in BagToSet(b) : x.op = "POST_run_bot"} |-> b[r]])

\* C13: turning auto mode off clears the cycle interval in the same step and
\* leaves the outstanding calls, a cycle request among them, as they are; as
\* long as auto mode is off the interval stays cleared and no step issues a
\* cycle request.
C13_StopCancelsTimer ==
    /\ [][(toggleAutoMode /\ ~autoMode') => (cycleInterval' = 0 /\ net' = net)]_vars
    /\ [](~autoMode => cycleInterval = 0)
    /\ [][~autoMode' => CycleCalls(net') <= CycleCalls(net)]_vars
    /\ [][(~autoMode /\ ~autoMode') => ~cycleTick]_vars

\* Auto mode has been turned off while the request of its cycle is outstanding.
C13_Witness ==
    /\ autoMounted /\ ~autoMode /\ cycleInterval = 0
    /\ scanning
    /\ effects = <<>>
    /\ \E r \in Calls : r.by = "startAutoTrade" /\ r.live /\ r.phase = "sent"

\* C14: once a view is torn down its intervals are cleared, none of them
\* ticks, and no step changes the state of the view until it is mounted
\* again, the completion of a call issued before the teardown included.
C14_TeardownSilencesView ==
    /\ [](/\ ~barMounted => ~barInterval
          /\ ~autoMounted => (~autoLedgerInterval /\ cycleInterval = 0)
          /\ ~dashMounted => ~dashLedgerInterval)
    /\ [][/\ (~barMounted /\ ~barMounted') => (barVars' = barVars /\ ~StatusTick)
          /\ (~autoMounted /\ ~autoMounted') =>
                (autoVars' = autoVars /\ ~autoLedgerTick /\ ~cycleTick)
          /\ (~dashMounted /\ ~dashMounted') =>
                (dashVars' = dashVars /\ ~dashLedgerTick)]_vars

\* The bar was torn down while its start command was outstanding: the command
\* and the refresh it awaits have completed since, the engine runs, and the
\* state of the bar is the initial one.
C14_Witness ==
    /\ ~barMounted /\ ~barInterval
    /\ component = "StatusBar"
    /\ remoteRunning
    /\ effects = <<Alert("started", NoArg)>>
    /\ status = InitialStatus
    /\ net = EmptyBag

DashLedgerFetches(b) == CallsOf(b, "Dashboard", "GET_trades", "fetchTrades")

\* A served ledger response of the view carries these active trades.
LedgerResponseWith(view, active) ==
    \E r \in Calls : /\ r.view = view /\ r.op = "GET_trades" /\ r.phase = "served"
                     /\ r.resp.active_trades = active

\* C15: when the close request of a mounted view is answered, the handler
\* leaves activeTrades as it is and issues one ledger fetch in the same step;
\* and activeTrades of either view changes only in a step that sets it to the
\* active trades of a served ledger response, or with the view's own state on
\* mount and teardown.
C15_CloseRefreshesLedger ==
    [][/\ \A r \in Calls :
            /\ (autoHandleCloseTradeResponse(r) /\ r.live) =>
                  /\ autoActiveTrades' = autoActiveTrades
                  /\ LedgerFetches(net') = LedgerFetches(net) + 1
            /\ (dashHandleCloseTradeResponse(r) /\ r.live) =>
                  /\ dashActiveTrades' = dashActiveTrades
                  /\ DashLedgerFetches(net') = DashLedgerFetches(net) + 1
       /\ autoActiveTrades' # autoActiveTrades =>
            \/ AutoTradeUnmount
            \/ LedgerResponseWith("AutoTrade", autoActiveTrades')
       /\ dashActiveTrades' # dashActiveTrades =>
            \/ DashboardUnmount
            \/ LedgerResponseWith("Dashboard", dashActiveTrades')]_vars

\* The engine has closed trade T1 on the view's request and the view has just
\* issued the ledger fetch: the trade is still on its list.
C15_Witness ==
    /\ autoMounted
    /\ effects = <<Sent("GET_trades")>>
    /\ "T1" \in autoActiveTrades
    /\ "T1" \in remoteHistory /\ "T1" \notin remoteActive
    /\ LedgerFetches(net) = 1
    /\ Load = 1

\* C16: closeTrade does not touch the local ledger when the close request
\* fails: neither the step that sends the request nor the step of the catch
\* block changes activeTrades or stats: what the list held when the failure
\* arrived it holds afterwards.
C16_CloseFailureKeepsLedger ==
    /\ [][\A t \in TradeIds :
            /\ autoHandleCloseTrade(t) =>
                  (autoActiveTrades' = autoActiveTrades /\ autoStats' = autoStats)
            /\ dashHandleCloseTrade(t) =>
                  (dashActiveTrades' = dashActiveTrades /\ dashStats' = dashStats)]_vars
    /\ [][Failed(effects') => \A r \in Calls :
            /\ autoHandleCloseTradeCatch(r) =>
                  (autoActiveTrades' = autoActiveTrades /\ autoStats' = autoStats)
            /\ dashHandleCloseTradeCatch(r) =>
                  (dashActiveTrades' = dashActiveTrades /\ dashStats' = dashStats)]_vars

\* The close request of the Dashboard for T1 has just failed: the failure is
\* reported and T1 is on the list.
C16_Witness ==
    /\ dashMounted
    /\ effects = <<Log("Error closing trade"), Alert("close_failed", NoArg)>>
    /\ "T1" \in dashActiveTrades

\* The calls of the given kind that handleReset has issued and awaits.
ResetCalls(b, op) ==
    BagCardinality([r \in {x \in BagToSet(b) : x.by = "handleReset" /\ x.op = op}
                        |-> b[r]])

\* C17: when the reset command is answered with success, the handler first
\* reports the message of the response as it came and then issues the ledger
\* fetch, and no scan yet; the scan is issued by the step in which that ledger
\* fetch is over, whether it succeeded or not, so the scan of a reset is never
\* outstanding together with its ledger fetch.
C17_ResetOrdering ==
    /\ [][\A r \in Calls :
            (handleResetResponse(r) /\ r.resp.status = "success") =>
                /\ effects' = <<Alert("reset_ok", [message |-> r.resp.message]),
                                Sent("GET_trades")>>
                /\ ResetCalls(net', "GET_trades") = ResetCalls(net, "GET_trades") + 1
                /\ ResetCalls(net', "POST_scan") = ResetCalls(net, "POST_scan")]_vars
    /\ [][\A r \in Calls : \A ok \in BOOLEAN :
            handleResetRefreshed(r, ok) =>
                /\ Raised(effects', Sent("POST_scan"))
                /\ ResetCalls(net', "GET_trades") = ResetCalls(net, "GET_trades") - 1
                /\ ResetCalls(net', "POST_scan") = ResetCalls(net, "POST_scan") + 1]_vars
    /\ [][ResetCalls(net', "POST_scan") > ResetCalls(net, "POST_scan") =>
            \E r \in Calls : \E ok \in BOOLEAN : handleResetRefreshed(r, ok)]_vars
    /\ [](ResetCalls(net, "GET_trades") + ResetCalls(net, "POST_scan") <= 1)

\* The reset has succeeded, its ledger fetch has been applied and the scan
\* that follows has just been issued.
C17_Witness ==
    /\ dashMounted /\ dashLoading
    /\ effects = <<Sent("POST_scan")>>
    /\ ResetCalls(net, "POST_scan") = 1
    /\ remoteActive = {} /\ remoteHistory = {}

\* The records of s whose pnl is in K, in the order of s.
RECURSIVE Restrict(_, _)
Restrict(s, K) ==
    IF s = <<>> THEN <<>>
    ELSE (IF Head(s).pnl \in K THEN <<Head(s)>> ELSE <<>>) \o Restrict(Tail(s), K)

\* The pnl values each filter lets through.
Kept(f) ==
    CASE f = "WIN" -> {p \in Pnls : p > 0}
      [] f = "LOSS" -> {p \in Pnls : p <= 0}
      [] f = "ALL" -> Pnls

\* C18: whatever records were fetched, the history shown under filter WIN is
\* exactly the records with pnl > 0, under LOSS exactly those with pnl <= 0
\* (pnl = 0 among them), under ALL all of them, each time in fetched order.
C18_FilterSemantics ==
    /\ filteredTrades = Restrict(trades, Kept(filter))
    /\ filter = "ALL" => filteredTrades = trades

\* Three records were fetched, a gain, a trade at zero and a loss; the filter
\* is LOSS and two of them are shown.
C18_Witness ==
    /\ histMounted /\ filter = "LOSS"
    /\ Len(trades) = 3
    /\ {trades[i].pnl : i \in 1..3} = Pnls
    /\ Len(filteredTrades) = 2

\* The history fetches outstanding, of a mounted page or not.
HistoryFetches(b) ==
    BagCardinality([r \in {x \in BagToSet(b) : x.by = "fetchHistory"} |-> b[r]])

\* C19: a click on a filter button issues no request and leaves the fetched
\* records as they are; the history is fetched by the mount of the page, once,
\* and by no other step.
C19_FilterIsLocal ==
    /\ [][\A f \in Filters : setFilter(f) => (net' = net /\ trades' = trades)]_vars
    /\ [][TradeHistoryMount => HistoryFetches(net') = HistoryFetches(net) + 1]_vars
    /\ [][HistoryFetches(net') > HistoryFetches(net) => TradeHistoryMount]_vars
    /\ [](HistoryFetches(net) <= 1)

\* The records are fetched, the filter has been changed since and no request
\* is outstanding.
C19_Witness ==
    /\ histMounted /\ ~histLoading
    /\ trades # <<>>
    /\ filter = "WIN"
    /\ net = EmptyBag

\* C20: once the batch of a successful cycle is applied, the opportunity list
\* is that batch, element by element in the order of the response and with
\* nothing of the previous list left; and when the batch is not empty the
\* selected opportunity is its first element.
C20_BatchReplacesList ==
    [][\A r \in Calls :
        (startAutoTradeResponse(r) /\ r.live /\ r.resp.status = "success") =>
            LET batch == r.resp.all_opportunities IN
            /\ Len(opportunities') = Len(batch)
            /\ \A i \in 1..Len(batch) : opportunities'[i] = batch[i]
            /\ Len(batch) > 0 => selectedOpportunity' = batch[1]]_vars

\* A second batch has just been applied: the list holds its two opportunities
\* in the engine's order and the first of them is selected.
C20_Witness ==
    /\ autoMounted
    /\ lastScan = "tock"
    /\ effects = <<Sent("GET_trades")>>
    /\ opportunities = <<"GBPUSD", "EURUSD">>
    /\ selectedOpportunity = opportunities[1]

\* C21: a click on a listed opportunity selects it and does nothing else: no
\* call is issued and the opportunity list, activeTrades, stats, lastScan,
\* auto mode and its interval are as before.
C21_SelectionIsLocal ==
    [][\A k \in 1..Len(opportunities) :
        selectOpportunity(k) =>
            /\ selectedOpportunity' = opportunities[k]
            /\ net' = net
            /\ effects' = <<>>
            /\ opportunities' = opportunities
            /\ autoActiveTrades' = autoActiveTrades
            /\ autoStats' = autoStats
            /\ lastScan' = lastScan
            /\ autoMode' = autoMode
            /\ cycleInterval' = cycleInterval]_vars

\* The second opportunity of the list is selected, which only a click does,
\* while auto mode is on and a call is outstanding.
C21_Witness ==
    /\ autoMounted /\ autoMode /\ cycleInterval = 1
    /\ Len(opportunities) = 2
    /\ selectedOpportunity = opportunities[2]
    /\ effects = <<>>
    /\ net # EmptyBag

\* A scan of handler step es was answered filtered: the notice is raised.
Filtered(es) == es # <<>> /\ es[1].t = "alert" /\ es[1].kind = "filtered"

\* A step in which a scan of the Dashboard is answered, whoever awaited it.
ScanAnswered(r) ==
    \/ handleScanResponse(r)
    \/ handleRunBotScanned(r, TRUE)
    \/ handleResetScanned(r, TRUE)

\* C22: the step that applies a filtered scan response leaves activeTrades and
\* stats of the view as they are, whatever ledger fetches are outstanding or
\* were applied before it.
C22_FilteredScanIsolation ==
    [][Filtered(effects') => \A r \in Calls :
        ScanAnswered(r) =>
            (dashActiveTrades' = dashActiveTrades /\ dashStats' = dashStats)]_vars

\* A scan has just been answered filtered while the view shows an open trade
\* and a ledger fetch is outstanding.
C22_Witness ==
    /\ dashMounted
    /\ Filtered(effects)
    /\ dashActiveTrades # {}
    /\ DashLedgerFetches(net) = 1

\* C23: when a scan pressed on the button is answered filtered, nothing of the
\* response is stored: data keeps the value it had before the scan.
C23_FilteredNotStored ==
    [][Filtered(effects') => \A r \in Calls :
        (handleScanResponse(r) /\ r.live) => data' = data]_vars

\* C24: a scan answered filtered is reported by the filtered notice alone: it
\* carries the message of the response as it came, and neither the console
\* error nor the failure alert of the catch block is raised; the failure alert
\* is raised by the catch block only.
C24_FilteredNotice ==
    /\ [][\A r \in Calls :
            (ScanAnswered(r) /\ r.live /\ data'.status = "filtered") =>
                /\ effects' = <<Alert("filtered", [symbol |-> r.arg.symbol,
                                                    message |-> data'.message])>>
                /\ ~Failed(effects')
                /\ ~Raised(effects', Alert("scan_failed", NoArg))]_vars
    /\ [][Raised(effects', Alert("scan_failed", NoArg)) =>
            (Failed(effects') /\ ~Filtered(effects')
             /\ \E r \in Calls : ScanFails(r) \/ handleRunBotScanned(r, FALSE))]_vars

\* The scan of the button has just been answered filtered: the notice with the
\* engine's reason is up and the busy flag is cleared.
C24_Witness ==
    /\ dashMounted /\ ~dashLoading /\ ~runningBot
    /\ data.status = "filtered"
    /\ effects = <<Alert("filtered", [symbol |-> symbol, message |-> FilterMessage])>>

\* C25: the start button is there while the replica says not running.  When
\* the start command is answered started the engine runs and the handler
\* fetches the status; when that fetch completes with a response, the replica
\* is that response and says running, which is what the bar shows as the
\* running state from then on.
C25_ScenarioA ==
    /\ [][handleStart => ~status.is_running]_vars
    /\ [][\A r \in Calls :
            (handleStartResponse(r) /\ r.resp.status = "started") =>
                /\ remoteRunning
                /\ effects' = <<Sent("GET_status")>>]_vars
    /\ [][\A r \in Calls :
            (r.live /\ handleStartRefreshed(r, TRUE)) =>
                /\ remoteRunning
                /\ status' = r.resp
                /\ status'.is_running]_vars

\* The start command was answered, its status fetch has just completed and the
\* replica says running, as the engine does.
C25_Witness ==
    /\ barMounted /\ ~loading
    /\ effects = <<Alert("started", NoArg)>>
    /\ status.is_running
    /\ remoteRunning

\* The history records the client holds show trade t with a terminal status.
HistoryShows(t) ==
    \E i \in DOMAIN trades :
        trades[i].trade_id = t /\ trades[i].status \in {"CLOSED_WIN", "CLOSED_LOSS"}

\* The ledger as the engine has it once T1 went from the open trades to the
\* history.
ClosedRemotely(resp, t) == t \in resp.recent_history /\ t \notin resp.active_trades

\* C26: when a ledger fetch of the Dashboard comes back from an engine that
\* has moved T1 from the open trades to the history, as the fetch that follows
\* a successful close does, applying it leaves T1 off activeTrades and among
\* the history records of the client, with a terminal status.
C26_ScenarioB ==
    [][\A r \in Calls :
        (dashFetchTradesDone(r) /\ r.live /\ ClosedRemotely(r.resp, "T1")) =>
            /\ "T1" \notin dashActiveTrades'
            /\ HistoryShows("T1")']_vars

\* The base the supplied value resolves to: /api when it is unset or empty,
\* else the value without quotes, surrounding blanks and a trailing slash, with
\* /api appended unless it ends with /api already.
Normalised(env) ==
    IF ~env.set \/ env.value = <<>> THEN Api
    ELSE LET n == replaceTrailingSlash(trim(replaceQuotes(env.value)))
         IN  IF endsWith(n, Api) THEN n ELSE n \o Api

\* C27: whatever VITE_API_URL is, every API_URL the page resolves is the
\* normalised value, ends with /api and does not end with a slash.
C27_BaseUrlNormalised ==
    \A m \in DOMAIN API_URL :
        /\ API_URL[m] = Normalised(viteApiUrl)
        /\ endsWith(API_URL[m], Api)
        /\ API_URL[m][Len(API_URL[m])] # "/"

\* C28: every request a component issues is addressed to the API_URL the
\* configuration resolved; a build whose VITE_API_URL resolves to another base
\* than /api sends no request to /api.
C28_SingleBaseUrl ==
    addressed.view # "none" =>
        /\ addressed.base = API_URL.config
        /\ Normalised(viteApiUrl) # Api => addressed.base # Api

\* C29: every answer of the engine to the Run Bot button with status success is
\* reported as a success that names the symbol of the executed trade and the
\* number of pairs scanned, is not reported as a failure and is followed by a
\* ledger fetch, whether the engine's automation runs or not.
C29_RunOnceSuccess ==
    [][\A r \in Calls :
        (handleRunBotResponse(r) /\ r.resp.status = "success") =>
            /\ Raised(effects', Alert("run_ok", [symbol |-> r.resp.trade,
                                                 total_scanned |-> r.resp.total_scanned]))
            /\ r.resp.trade \in Symbols
            /\ ~Failed(effects')
            /\ ~Raised(effects', Alert("run_failed", NoArg))
            /\ Raised(effects', Sent("GET_trades"))]_vars

\* C30: the scan that handleRunBot issues after a successful run asks for the
\* symbol of the trade the run executed, also when another symbol was selected
\* when the button was pressed.
C30_FollowUpScanSymbol ==
    [][\A r \in Calls :
        (handleRunBotResponse(r) /\ r.resp.status = "success"
            /\ r.resp.trade # NoTrade) =>
            \E q \in BagToSet(net') :
                /\ q.by = "handleRunBot" /\ q.op = "POST_scan"
                /\ q.arg.symbol = r.resp.trade]_vars

\* C31: a fetch that was issued before a fetch of the same replica whose
\* response the replica already holds does not overwrite the replica when its
\* own response arrives: the status of the bar and the ledger of either view
\* keep the response of the fetch issued last.
C31_ReplicaFreshness ==
    [][\A r \in Calls :
        (r.live /\ r.issued = "overtaken") =>
            /\ (fetchStatusDone(r) \/ handleStartRefreshed(r, TRUE)
                    \/ handleStopRefreshed(r, TRUE)) => status' = status
            /\ autoFetchTradesDone(r) =>
                  /\ autoActiveTrades' = autoActiveTrades
                  /\ autoStats' = autoStats
            /\ (dashFetchTradesDone(r) \/ handleResetRefreshed(r, TRUE)) =>
                  /\ dashActiveTrades' = dashActiveTrades
                  /\ dashStats' = dashStats]_vars

\* C32: in the AutoTrade view the selected opportunity is null or one of the
\* opportunities of the current list, whatever cycles and selections came
\* before.
C32_SelectionConsistency ==
    selectedOpportunity = NoSelection
        \/ \E i \in DOMAIN opportunities : opportunities[i] = selectedOpportunity

\* C33: whatever toggles of auto mode and mounts and unmounts of the AutoTrade
\* view came before, at most one 60 s cycle interval is scheduled, and one is
\* scheduled exactly when the view is mounted with auto mode on.
C33_SingleCycleTimer ==
    /\ cycleInterval <= 1
    /\ cycleInterval = 1 <=> (autoMounted /\ autoMode)

\* Auto mode is on with its one interval while two cycle requests are
\* outstanding: the interval has fired, or auto mode was turned off and on
\* again, before the first cycle was answered.
C33_Witness ==
    /\ autoMounted /\ autoMode /\ cycleInterval = 1
    /\ CycleRequests(net) = 2

\* The start and stop commands of the status bar that are outstanding: the
\* POST of handleStart or handleStop, or the status fetch the handler awaits
\* after it.
Commands(b) ==
    BagCardinality([r \in {x \in BagToSet(b) : x.by \in {"handleStart", "handleStop"}}
                       |-> b[r]])

\* C34: at most one start or stop command of the status bar is outstanding;
\* while one is outstanding loading is true and the button issues no other;
\* and loading is false again when the command is over, be it with success,
\* with an unexpected status or with a failure.
C34_CommandExclusion ==
    /\ [](Commands(net) <= 1)
    /\ [](\A r \in Calls : (r.by \in {"handleStart", "handleStop"} /\ r.live) => loading)
    /\ [][(handleStart \/ handleStop) => (~loading /\ loading' /\ Commands(net) = 0)]_vars
    /\ [][\A r \in Calls :
            (r.live /\ r.by \in {"handleStart", "handleStop"}
                /\ Commands(net') = 0 /\ net' # net) => ~loading']_vars

\* A stop command has failed: the failure was reported, no command is
\* outstanding and the button is enabled again.
C34_Witness ==
    /\ barMounted /\ ~loading /\ status.is_running
    /\ effects = <<Log("Error stopping auto-trade"), Alert("stop_failed", NoArg)>>
    /\ Commands(net) = 0

\* The POST /scan requests of the mounted Dashboard that are outstanding.
Scans(b) ==
    BagCardinality([r \in {x \in BagToSet(b) : /\ x.view = "Dashboard" /\ x.op = "POST_scan"
                                               /\ x.live} |-> b[r]])

\* C35: while loading of the Dashboard is false none of its scans is
\* outstanding, and at most one is outstanding at a time, whether the scan was
\* started by the mount, the Scan button, the run-once handler or the reset
\* handler.
C35_ScanBusyFlag ==
    /\ ~dashLoading => Scans(net) = 0
    /\ Scans(net) <= 1

\* The 5 s ledger intervals that are scheduled, over the views of the page.
LedgerTimers ==
    (IF autoLedgerInterval THEN 1 ELSE 0) + (IF dashLedgerInterval THEN 1 ELSE 0)

\* C36: with the views mounted for their own tab only, at most one 5 s ledger
\* interval is scheduled after any sequence of tab switches; leaving a tab
\* clears the ledger interval of its view, and the cycle interval of
\* AutoTrade, and the view of the other tab sets its interval only after that.
C36_OneLedgerPoller ==
    /\ [](LedgerTimers <= 1)
    /\ [][AutoTradeUnmount => (~autoLedgerInterval' /\ cycleInterval' = 0)]_vars
    /\ [][DashboardUnmount => ~dashLedgerInterval']_vars
    /\ [][DashboardMount =>
            (~autoLedgerInterval /\ cycleInterval = 0 /\ dashLedgerInterval')]_vars
    /\ [][AutoTradeMount => (~dashLedgerInterval /\ autoLedgerInterval')]_vars

\* The AutoTrade tab is shown after the Dashboard tab: the ledger interval of
\* AutoTrade is the only one, while a call of the Dashboard that is gone is
\* still outstanding.
C36_Witness ==
    /\ autoMounted /\ autoLedgerInterval
    /\ ~dashMounted /\ ~dashLedgerInterval
    /\ \E r \in Calls : r.view = "Dashboard" /\ ~r.live

\* What the history page shows of the fetched records under filter f.
Shown(f) == SelectSeq(trades, LAMBDA trade : keepsTrade(f, trade))
ShownSet(f) == {Shown(f)[i] : i \in DOMAIN Shown(f)}

\* C37: whatever records with a numeric pnl were fetched, no record is shown
\* under both WIN and LOSS, the two results together are the records shown
\* under ALL, and so every record is shown under exactly one of WIN and LOSS.
C37_FilterPartition ==
    /\ filteredTrades = Shown(filter)
    /\ ShownSet("WIN") \cap ShownSet("LOSS") = {}
    /\ ShownSet("WIN") \cup ShownSet("LOSS") = ShownSet("ALL")
    /\ Len(Shown("WIN")) + Len(Shown("LOSS")) = Len(Shown("ALL"))
    /\ \A i \in DOMAIN trades :
          keepsTrade("WIN", trades[i]) # keepsTrade("LOSS", trades[i])

\* A gain, a trade at zero and a loss were fetched and the filter is WIN: one
\* record is shown, the other two are those of LOSS.
C37_Witness ==
    /\ histMounted /\ filter = "WIN"
    /\ {trades[i].pnl : i \in DOMAIN trades} = Pnls
    /\ Len(filteredTrades) = 1
    /\ Len(Shown("LOSS")) = 2

\* C38: a cycle whose POST /run_bot fails, or is answered with another status
\* than success, leaves opportunities, selectedOpportunity, lastScan,
\* activeTrades and stats as they were, issues no ledger fetch and no other
\* call, leaves the cycle interval scheduled as it was, and ends with scanning
\* false.
C38_UnsuccessfulCycleFrame ==
    [][\A r \in Calls :
        (\/ startAutoTradeCatch(r)
         \/ startAutoTradeResponse(r) /\ r.resp.status # "success") =>
            /\ opportunities' = opportunities
            /\ selectedOpportunity' = selectedOpportunity
            /\ lastScan' = lastScan
            /\ autoActiveTrades' = autoActiveTrades
            /\ autoStats' = autoStats
            /\ net' = Remove(net, r)
            /\ ~Raised(effects', Sent("GET_trades"))
            /\ cycleInterval' = cycleInterval
            /\ autoMode' = autoMode
            /\ r.live => ~scanning']_vars

\* A cycle of auto mode has failed after an earlier one had succeeded: the
\* list and the selection of the earlier cycle are still there, the interval
\* is scheduled and scanning is false.
C38_Witness ==
    /\ autoMounted /\ autoMode /\ cycleInterval = 1
    /\ effects = <<Log("Auto-trade error")>>
    /\ ~scanning
    /\ Len(opportunities) = 2 /\ selectedOpportunity = opportunities[1]
    /\ lastScan # NoScan

====
